---- MODULE Spec2Model ----
(***************************************************************************)
(* Helix-2 stream cipher: the keystream generator (src/src/helix2.c) and   *)
(* its byte / range XOR transform over a block-caching context.            *)
(*                                                                         *)
(* Number representation.  TLC integers are 32-bit signed, so a uint32_t   *)
(* is a pair <<hi, lo>> of 16-bit halves and a uint64_t is a 4-tuple       *)
(* <<l3, l2, l1, l0>> of 16-bit limbs, most significant first.  Every      *)
(* operation reduces modulo 2^32 (resp. 2^64) exactly as the C types do.   *)
(***************************************************************************)
EXTENDS Integers, Sequences, FiniteSets, TLC

HELIX2_KEYSTREAM_SIZE == 64

----------------------------------------------------------------------------
(* 8-bit and 16-bit bitwise operations *)

RECURSIVE XorBits(_, _, _)
XorBits(a, b, n) ==
    IF n = 0 THEN 0
    ELSE ((a + b) % 2) + 2 * XorBits(a \div 2, b \div 2, n - 1)

\* table of a ^ b for bytes a, b, indexed by a * 256 + b
XorTab == [i \in 0..65535 |-> XorBits(i \div 256, i % 256, 8)]

Xor8(a, b) == XorTab[a * 256 + b]

Xor16(a, b) == Xor8(a \div 256, b \div 256) * 256 + Xor8(a % 256, b % 256)

\* a | b, from a + b = (a ^ b) + 2 * (a & b)
Or16(a, b) == (a + b + Xor16(a, b)) \div 2

----------------------------------------------------------------------------
(* uint32_t arithmetic on <<hi, lo>> *)

W32(hi, lo) == <<hi, lo>>

Zero32 == W32(0, 0)

Add32(x, y) ==
    LET lo == x[2] + y[2]
        hi == x[1] + y[1] + (lo \div 65536)
    IN  W32(hi % 65536, lo % 65536)

Xor32(x, y) == W32(Xor16(x[1], y[1]), Xor16(x[2], y[2]))

Or32(x, y) == W32(Or16(x[1], y[1]), Or16(x[2], y[2]))

\* (uint32_t)(x << n), 0 < n < 32
Shl32(x, n) ==
    IF n < 16
    THEN W32((x[1] % (2 ^ (16 - n))) * (2 ^ n) + (x[2] \div (2 ^ (16 - n))),
             (x[2] % (2 ^ (16 - n))) * (2 ^ n))
    ELSE W32((x[2] % (2 ^ (32 - n))) * (2 ^ (n - 16)), 0)

\* x >> n, 0 < n < 32
Shr32(x, n) ==
    IF n < 16
    THEN W32(x[1] \div (2 ^ n),
             (x[1] % (2 ^ n)) * (2 ^ (16 - n)) + (x[2] \div (2 ^ n)))
    ELSE W32(0, x[1] \div (2 ^ (n - 16)))

\* _rotl32 without the bits shifted out at the top
_rotl32_shift_only(x, n) == Shl32(x, n)

_rotl32(x, n) == Or32(Shl32(x, n), Shr32(x, 32 - n))

\* _pack4 with the first byte in the high-order position
_pack4_high_first(a, at) == W32(a[at] * 256 + a[at + 1], a[at + 2] * 256 + a[at + 3])

\* little-endian pack of a[at], a[at+1], a[at+2], a[at+3]
_pack4(a, at) == W32(a[at + 3] * 256 + a[at + 2], a[at + 1] * 256 + a[at])

\* ByteOfWord with the bytes of a word taken high-order first
ByteOfWord_high_first(w, p) ==
    IF p = 0 THEN w[1] \div 256
    ELSE IF p = 1 THEN w[1] % 256
    ELSE IF p = 2 THEN w[2] \div 256
    ELSE w[2] % 256

\* byte p (0..3) of a word as laid out in memory.  The cast
\* (uint8_t *)stream is read on a little-endian host, which every build
\* target of the repository is and the test vectors require.
ByteOfWord(w, p) ==
    IF p = 0 THEN w[2] % 256
    ELSE IF p = 1 THEN w[2] \div 256
    ELSE IF p = 2 THEN w[1] % 256
    ELSE w[1] \div 256

----------------------------------------------------------------------------
(* uint64_t arithmetic on <<l3, l2, l1, l0>> *)

U64(l3, l2, l1, l0) == <<l3, l2, l1, l0>>

Zero64 == U64(0, 0, 0, 0)

Max64 == U64(65535, 65535, 65535, 65535)

\* Inc64 that carries within the low 32 bits only
Inc64_low_word(x) ==
    IF x[4] < 65535 THEN U64(x[1], x[2], x[3], x[4] + 1)
    ELSE IF x[3] < 65535 THEN U64(x[1], x[2], x[3] + 1, 0)
    ELSE U64(x[1], x[2], 0, 0)

\* x + 1 modulo 2^64
Inc64(x) ==
    IF x[4] < 65535 THEN U64(x[1], x[2], x[3], x[4] + 1)
    ELSE IF x[3] < 65535 THEN U64(x[1], x[2], x[3] + 1, 0)
    ELSE IF x[2] < 65535 THEN U64(x[1], x[2] + 1, 0, 0)
    ELSE IF x[1] < 65535 THEN U64(x[1] + 1, 0, 0, 0)
    ELSE Zero64

\* x / HELIX2_KEYSTREAM_SIZE
Div64by64(x) ==
    U64(x[1] \div HELIX2_KEYSTREAM_SIZE,
        (x[1] % HELIX2_KEYSTREAM_SIZE) * 1024 + (x[2] \div HELIX2_KEYSTREAM_SIZE),
        (x[2] % HELIX2_KEYSTREAM_SIZE) * 1024 + (x[3] \div HELIX2_KEYSTREAM_SIZE),
        (x[3] % HELIX2_KEYSTREAM_SIZE) * 1024 + (x[4] \div HELIX2_KEYSTREAM_SIZE))

\* x % HELIX2_KEYSTREAM_SIZE
Mod64by64(x) == x[4] % HELIX2_KEYSTREAM_SIZE

\* (uint32_t)(x & 0xFFFFFFFF)
Low32(x) == W32(x[3], x[4])

\* High32 of a block counter that is only 32 bits wide
High32_narrow(x) == W32(0, 0)

\* High32 that keeps the low half of the high word only
High32_low_half(x) == W32(0, x[2])

\* (uint32_t)((x >> 32) & 0xFFFFFFFF)
High32(x) == W32(x[1], x[2])

----------------------------------------------------------------------------
(* The mixing core *)

\* the eight statements of _helix2_shuffle, each on the state left by the
\* one before it
Shuffle1(s, a, b, c, d) ==
    [s EXCEPT ![c] = Add32(@, _rotl32(Add32(Xor32(s[a], s[b]), s[d]), 9))]

Shuffle2(s, a, b, c, d) ==
    [s EXCEPT ![d] = Xor32(@, _rotl32(Xor32(Add32(s[b], s[c]), s[a]), 13))]

Shuffle3(s, a, b, c, d) ==
    [s EXCEPT ![a] = Add32(@, _rotl32(Add32(Xor32(s[c], s[d]), s[b]), 18))]

Shuffle4(s, a, b, c, d) ==
    [s EXCEPT ![b] = Xor32(@, _rotl32(Xor32(Add32(s[d], s[a]), s[c]), 22))]

Shuffle5(s, a, b, c, d) ==
    [s EXCEPT ![c] = Xor32(@, _rotl32(Add32(s[a], s[b]), 7))]

Shuffle6(s, a, b, c, d) ==
    [s EXCEPT ![d] = Add32(@, _rotl32(Xor32(s[b], s[c]), 21))]

Shuffle7(s, a, b, c, d) ==
    [s EXCEPT ![a] = Xor32(@, _rotl32(Add32(s[c], s[d]), 11))]

Shuffle8(s, a, b, c, d) ==
    [s EXCEPT ![b] = Add32(@, _rotl32(Xor32(s[d], s[a]), 16))]

_helix2_shuffle(s, a, b, c, d) ==
    Shuffle8(Shuffle7(Shuffle6(Shuffle5(
        Shuffle4(Shuffle3(Shuffle2(Shuffle1(s, a, b, c, d),
                                   a, b, c, d), a, b, c, d), a, b, c, d),
        a, b, c, d), a, b, c, d), a, b, c, d), a, b, c, d)

\* the four shuffles over the rows of the 4 x 4 word matrix, each on the
\* words left by the one before it
Rows(s) ==
    CHOOSE r \in {_helix2_shuffle(s3, 12, 13, 14, 15) :
        s3 \in {_helix2_shuffle(s2, 8, 9, 10, 11) :
            s2 \in {_helix2_shuffle(s1, 4, 5, 6, 7) :
                s1 \in {_helix2_shuffle(s, 0, 1, 2, 3)}}}} : TRUE

\* the four shuffles over its columns
Columns(s) ==
    CHOOSE r \in {_helix2_shuffle(s3, 3, 7, 11, 15) :
        s3 \in {_helix2_shuffle(s2, 2, 6, 10, 14) :
            s2 \in {_helix2_shuffle(s1, 1, 5, 9, 13) :
                s1 \in {_helix2_shuffle(s, 0, 4, 8, 12)}}}} : TRUE

\* the four shuffles over its diagonals
Diagonals(s) ==
    CHOOSE r \in {_helix2_shuffle(s3, 3, 4, 9, 14) :
        s3 \in {_helix2_shuffle(s2, 2, 7, 8, 13) :
            s2 \in {_helix2_shuffle(s1, 1, 6, 11, 12) :
                s1 \in {_helix2_shuffle(s, 0, 5, 10, 15)}}}} : TRUE

\* the four shuffles over the mirrored diagonals
MirroredDiagonals(s) ==
    CHOOSE r \in {_helix2_shuffle(s3, 0, 7, 10, 13) :
        s3 \in {_helix2_shuffle(s2, 1, 4, 11, 14) :
            s2 \in {_helix2_shuffle(s1, 2, 5, 8, 15) :
                s1 \in {_helix2_shuffle(s, 3, 6, 9, 12)}}}} : TRUE

\* a round whose last pass runs over the mirrored diagonals
Round_mirrored(s) ==
    CHOOSE r \in {MirroredDiagonals(cs) : cs \in {Columns(rs) : rs \in {Rows(s)}}} : TRUE

\* Round with the column pass ahead of the row pass
Round_columns_first(s) ==
    CHOOSE r \in {Diagonals(rs) : rs \in {Rows(cs) : cs \in {Columns(s)}}} : TRUE

\* the twelve shuffles of one round: rows, columns, diagonals.  Each pass
\* is bound to its value before the next one starts.
Round(s) ==
    CHOOSE r \in {Diagonals(cs) : cs \in {Columns(rs) : rs \in {Rows(s)}}} : TRUE

\* stream[i] += state[i] for all 16 words
AddState(stream, state) ==
    [stream EXCEPT ![0] = Add32(@, state[0]), ![1] = Add32(@, state[1]),
                   ![2] = Add32(@, state[2]), ![3] = Add32(@, state[3]),
                   ![4] = Add32(@, state[4]), ![5] = Add32(@, state[5]),
                   ![6] = Add32(@, state[6]), ![7] = Add32(@, state[7]),
                   ![8] = Add32(@, state[8]), ![9] = Add32(@, state[9]),
                   ![10] = Add32(@, state[10]), ![11] = Add32(@, state[11]),
                   ![12] = Add32(@, state[12]), ![13] = Add32(@, state[13]),
                   ![14] = Add32(@, state[14]), ![15] = Add32(@, state[15])]

\* _helix2_initialize_keystream that XORs the high counter bits into the
\* word 11 left by the previous generation
_helix2_initialize_keystream_xor_in_place(c) ==
    LET ks == c.keystream
        st == [ks.state EXCEPT
                 ![10] = Low32(ks.current_block_index),
                 ![11] = Xor32(ks.state[11], High32(ks.current_block_index))]
        s1 == AddState(Round(st), st)
        s2 == CHOOSE r \in {AddState(Round(v), st) : v \in {s1}} : TRUE
    IN  [c EXCEPT !.keystream = [stream |-> s2,
                                 state |-> st,
                                 current_block_index |-> ks.current_block_index,
                                 last_block_index |-> ks.current_block_index],
                  !.gens = c.gens + 1]

\* _helix2_initialize_keystream without the memcpy of the state into the
\* stream: the rounds run on the block generated before
_helix2_initialize_keystream_no_copy(c) ==
    LET ks == c.keystream
        st == [ks.state EXCEPT
                 ![10] = Low32(ks.current_block_index),
                 ![11] = Xor32(_pack4(c.nonce, 0), High32(ks.current_block_index))]
        s1 == AddState(Round(ks.stream), st)
        s2 == CHOOSE r \in {AddState(Round(v), st) : v \in {s1}} : TRUE
    IN  [c EXCEPT !.keystream = [stream |-> s2,
                                 state |-> st,
                                 current_block_index |-> ks.current_block_index,
                                 last_block_index |-> ks.current_block_index],
                  !.gens = c.gens + 1]

\* _helix2_initialize_keystream that writes the counter one word too far:
\* the low bits into word 11 and the high bits into word 12
_helix2_initialize_keystream_word_12(c) ==
    LET ks == c.keystream
        st == [ks.state EXCEPT
                 ![11] = Low32(ks.current_block_index),
                 ![12] = Xor32(_pack4(c.nonce, 0), High32(ks.current_block_index))]
        s1 == AddState(Round(st), st)
        s2 == CHOOSE r \in {AddState(Round(v), st) : v \in {s1}} : TRUE
    IN  [c EXCEPT !.keystream = [stream |-> s2,
                                 state |-> st,
                                 current_block_index |-> ks.current_block_index,
                                 last_block_index |-> ks.current_block_index],
                  !.gens = c.gens + 1]

\* _helix2_initialize_keystream whose second round is the mirrored one
_helix2_initialize_keystream_mirrored(c) ==
    LET ks == c.keystream
        st == [ks.state EXCEPT
                 ![10] = Low32(ks.current_block_index),
                 ![11] = Xor32(_pack4(c.nonce, 0), High32(ks.current_block_index))]
        s1 == AddState(Round(st), st)
        s2 == CHOOSE r \in {AddState(Round_mirrored(v), st) : v \in {s1}} : TRUE
    IN  [c EXCEPT !.keystream = [stream |-> s2,
                                 state |-> st,
                                 current_block_index |-> ks.current_block_index,
                                 last_block_index |-> ks.current_block_index],
                  !.gens = c.gens + 1]

\* _helix2_initialize_keystream that adds the high counter bits to the
\* nonce word instead of XORing them
_helix2_initialize_keystream_add_high(c) ==
    LET ks == c.keystream
        st == [ks.state EXCEPT
                 ![10] = Low32(ks.current_block_index),
                 ![11] = Add32(_pack4(c.nonce, 0), High32(ks.current_block_index))]
        s1 == AddState(Round(st), st)
        s2 == CHOOSE r \in {AddState(Round(v), st) : v \in {s1}} : TRUE
    IN  [c EXCEPT !.keystream = [stream |-> s2,
                                 state |-> st,
                                 current_block_index |-> ks.current_block_index,
                                 last_block_index |-> ks.current_block_index],
                  !.gens = c.gens + 1]

\* _helix2_initialize_keystream: build the keystream for current_block_index.
\* gens is a ghost field counting the block generations run on the context
\* since the start of the current call.
_helix2_initialize_keystream(c) ==
    LET ks == c.keystream
        st == [ks.state EXCEPT
                 ![10] = Low32(ks.current_block_index),
                 ![11] = Xor32(_pack4(c.nonce, 0), High32(ks.current_block_index))]
        s1 == AddState(Round(st), st)
        s2 == CHOOSE r \in {AddState(Round(v), st) : v \in {s1}} : TRUE
    IN  [c EXCEPT !.keystream = [stream |-> s2,
                                 state |-> st,
                                 current_block_index |-> ks.current_block_index,
                                 last_block_index |-> ks.current_block_index],
                  !.gens = c.gens + 1]

\* helix2_buffer_set_next_block that skips the generation when the cache
\* already holds the requested index
helix2_buffer_set_next_block_if_changed(c, block_index) ==
    IF block_index # c.keystream.last_block_index
    THEN _helix2_initialize_keystream(
             [c EXCEPT !.keystream.current_block_index = block_index])
    ELSE [c EXCEPT !.keystream.current_block_index = block_index]

\* Set the keystream block index (always regenerates)
helix2_buffer_set_next_block(c, block_index) ==
    _helix2_initialize_keystream(
        [c EXCEPT !.keystream.current_block_index = block_index])

\* helix2_buffer_next_block that passes the next index without storing it
\* in current_block_index
helix2_buffer_next_block_index_not_stored(c) ==
    [helix2_buffer_set_next_block(c, Inc64(c.keystream.current_block_index))
        EXCEPT !.keystream.current_block_index = c.keystream.current_block_index]

\* Set the keystream to the next sequential block
helix2_buffer_next_block(c) ==
    helix2_buffer_set_next_block(c, Inc64(c.keystream.current_block_index))

----------------------------------------------------------------------------
(* The context and its construction *)

\* "so!M4g1c"
magic_constant == [i \in 0..7 |-> <<115, 111, 33, 77, 52, 103, 49, 99>>[i + 1]]

\* an all-zero helix2_context_t
ZeroContext ==
    [nonce |-> [i \in 0..19 |-> 0],
     key |-> [i \in 0..31 |-> 0],
     keystream |-> [stream |-> [i \in 0..15 |-> Zero32],
                    state |-> [i \in 0..15 |-> Zero32],
                    current_block_index |-> Zero64,
                    last_block_index |-> Zero64],
     gens |-> 0]

\* memset(context, 0, sizeof(helix2_context_t))
Memset0(c) == ZeroContext

\* the 16 seed words written by helix2_initialize_context
SeedState(key, nonce) ==
    [i \in 0..15 |->
        IF i < 2 THEN _pack4(magic_constant, 4 * i)
        ELSE IF i < 10 THEN _pack4(key, 4 * (i - 2))
        ELSE IF i = 10 THEN Zero32
        ELSE _pack4(nonce, 4 * (i - 11))]

\* helix2_initialize_context that leaves block 0 to the first call
helix2_initialize_context_lazy(c, key, nonce) ==
    LET c0 == Memset0(c)
        c1 == [c0 EXCEPT !.key = [i \in 0..31 |-> key[i]],
                         !.nonce = [i \in 0..19 |-> nonce[i]]]
    IN  [c1 EXCEPT !.keystream.state = SeedState(c1.key, c1.nonce),
                   !.keystream.last_block_index = Zero64]

\* helix2_initialize_context: whatever c held is cleared first
helix2_initialize_context(c, key, nonce) ==
    LET c0 == Memset0(c)
        c1 == [c0 EXCEPT !.key = [i \in 0..31 |-> key[i]],
                         !.nonce = [i \in 0..19 |-> nonce[i]]]
        c2 == [c1 EXCEPT !.keystream.state = SeedState(c1.key, c1.nonce),
                         !.keystream.last_block_index = Zero64]
    IN  helix2_buffer_set_next_block(c2, Zero64)

----------------------------------------------------------------------------
(* The byte / range transform *)

\* ((uint8_t *)stream)[p], 0 <= p < 64
KeystreamByte(stream, p) == ByteOfWord(stream[p \div 4], p % 4)

\* the return statement of helix2_byte on the context c left by the cache
\* check: the context, the returned byte and the index read from the block
ByteResult(c, offset, byte) ==
    [ctx |-> c,
     result |-> Xor8(byte, KeystreamByte(c.keystream.stream, Mod64by64(offset))),
     idx |-> Mod64by64(offset)]

\* helix2_byte that compares only the low 32 bits of the block indices
helix2_byte_narrow_compare(c, offset, byte) ==
    LET c1 == [c EXCEPT !.keystream.current_block_index = Div64by64(offset)]
    IN  ByteResult(IF Low32(c1.keystream.last_block_index)
                         # Low32(c1.keystream.current_block_index)
                   THEN helix2_buffer_set_next_block(
                            c1, c1.keystream.current_block_index)
                   ELSE c1,
                   offset, byte)

\* helix2_byte that generates the block of the offset on every call
helix2_byte_always_generates(c, offset, byte) ==
    ByteResult(helix2_buffer_set_next_block(c, Div64by64(offset)), offset, byte)

\* helix2_byte: returns the context after the call and the returned byte
helix2_byte(c, offset, byte) ==
    LET c1 == [c EXCEPT !.keystream.current_block_index = Div64by64(offset)]
    IN  ByteResult(IF c1.keystream.last_block_index
                         # c1.keystream.current_block_index
                   THEN helix2_buffer_set_next_block(
                            c1, c1.keystream.current_block_index)
                   ELSE c1,
                   offset, byte)

\* buffer[i] ^= keystream_bytes[block_offset]; block_offset++ on the context
\* c left by the block-boundary check.  trace is a ghost record of every XOR
\* step: the buffer position, the index read from the cached block, the
\* block index the cache held and the keystream byte.
XorStep(st, c, current_block, block_offset, i) ==
    [ctx |-> c,
     buffer |-> [st.buffer EXCEPT
                   ![i] = Xor8(@, KeystreamByte(c.keystream.stream, block_offset))],
     current_block |-> current_block,
     block_offset |-> (block_offset + 1) % 256,
     trace |-> Append(st.trace,
                      [pos |-> i, idx |-> block_offset,
                       blk |-> c.keystream.last_block_index,
                       ks |-> KeystreamByte(c.keystream.stream, block_offset)])]

\* BufferStep that restarts block_offset at a block boundary without
\* generating the next block
BufferStep_no_generation(st, i) ==
    IF st.block_offset >= HELIX2_KEYSTREAM_SIZE
    THEN XorStep(st, st.ctx, Inc64(st.current_block), 0, i)
    ELSE XorStep(st, st.ctx, st.current_block, st.block_offset, i)

\* BufferStep that generates the block of every byte anew
BufferStep_always_generates(st, i) ==
    IF st.block_offset >= HELIX2_KEYSTREAM_SIZE
    THEN XorStep(st,
                 helix2_buffer_set_next_block(st.ctx, Inc64(st.current_block)),
                 Inc64(st.current_block), 0, i)
    ELSE XorStep(st, helix2_buffer_set_next_block(st.ctx, st.current_block),
                 st.current_block, st.block_offset, i)

\* BufferStep that advances to the next block as soon as block_offset
\* reaches HELIX2_KEYSTREAM_SIZE, at the end of the iteration
BufferStep_advance_after(st, i) ==
    CHOOSE r \in {IF x.block_offset >= HELIX2_KEYSTREAM_SIZE
                  THEN [x EXCEPT !.ctx = helix2_buffer_set_next_block(
                                             x.ctx, Inc64(x.current_block)),
                                 !.current_block = Inc64(@),
                                 !.block_offset = 0]
                  ELSE x :
                      x \in {XorStep(st, st.ctx, st.current_block,
                                     st.block_offset, i)}} : TRUE

\* BufferStep that moves to the next block only when block_offset is above
\* HELIX2_KEYSTREAM_SIZE: index 64 of the block is read first, which is the
\* first byte of the state array that follows the block in the struct
BufferStep_reset_above(st, i) ==
    IF st.block_offset > HELIX2_KEYSTREAM_SIZE
    THEN XorStep(st,
                 helix2_buffer_set_next_block(st.ctx, Inc64(st.current_block)),
                 Inc64(st.current_block), 0, i)
    ELSE IF st.block_offset = HELIX2_KEYSTREAM_SIZE
    THEN [ctx |-> st.ctx,
          buffer |-> [st.buffer EXCEPT
                        ![i] = Xor8(@, ByteOfWord(st.ctx.keystream.state[0], 0))],
          current_block |-> st.current_block,
          block_offset |-> st.block_offset + 1,
          trace |-> Append(st.trace,
                           [pos |-> i, idx |-> st.block_offset,
                            blk |-> st.ctx.keystream.last_block_index,
                            ks |-> ByteOfWord(st.ctx.keystream.state[0], 0)])]
    ELSE XorStep(st, st.ctx, st.current_block, st.block_offset, i)

\* BufferStep whose block counter wraps to block 0 after block 2^58 - 1,
\* the block of the last byte offset
BufferStep_wraps_with_offset(st, i) ==
    IF st.block_offset >= HELIX2_KEYSTREAM_SIZE
    THEN IF st.current_block = U64(1023, 65535, 65535, 65535)
         THEN XorStep(st, helix2_buffer_set_next_block(st.ctx, Zero64),
                      Zero64, 0, i)
         ELSE XorStep(st,
                      helix2_buffer_set_next_block(st.ctx, Inc64(st.current_block)),
                      Inc64(st.current_block), 0, i)
    ELSE XorStep(st, st.ctx, st.current_block, st.block_offset, i)

\* one iteration of the for loop of helix2_buffer.  st holds the context,
\* the buffer and the locals current_block and block_offset.
BufferStep(st, i) ==
    IF st.block_offset >= HELIX2_KEYSTREAM_SIZE
    THEN XorStep(st,
                 helix2_buffer_set_next_block(st.ctx, Inc64(st.current_block)),
                 Inc64(st.current_block), 0, i)
    ELSE XorStep(st, st.ctx, st.current_block, st.block_offset, i)

\* iterations lo, lo + 1, ..., hi - 1 of the loop, in order: the state
\* left by the first half is bound to its value before the second half runs
RECURSIVE BufferLoop(_, _, _)
BufferLoop(st, lo, hi) ==
    IF hi <= lo THEN st
    ELSE IF hi = lo + 1 THEN BufferStep(st, lo)
    ELSE CHOOSE r \in {BufferLoop(half, (lo + hi) \div 2, hi) :
                           half \in {BufferLoop(st, lo, (lo + hi) \div 2)}} : TRUE

\* helix2_buffer that trusts the cached block at its start
helix2_buffer_no_initial_check(c, buffer, size, start_offset) ==
    BufferLoop([ctx |-> c,
                buffer |-> buffer,
                current_block |-> Div64by64(start_offset),
                block_offset |-> Mod64by64(start_offset),
                trace |-> <<>>],
               0, size)

\* helix2_buffer that returns at once when there is nothing to process
helix2_buffer_returns_when_empty(c, buffer, size, start_offset) ==
    IF size = 0
    THEN [ctx |-> c,
          buffer |-> buffer,
          current_block |-> Div64by64(start_offset),
          block_offset |-> Mod64by64(start_offset),
          trace |-> <<>>]
    ELSE BufferLoop([ctx |-> IF c.keystream.last_block_index # Div64by64(start_offset)
                             THEN helix2_buffer_set_next_block(c, Div64by64(start_offset))
                             ELSE c,
                     buffer |-> buffer,
                     current_block |-> Div64by64(start_offset),
                     block_offset |-> Mod64by64(start_offset),
                     trace |-> <<>>],
                    0, size)

\* helix2_buffer whose loop runs while i <= size
helix2_buffer_one_more(c, buffer, size, start_offset) ==
    BufferLoop([ctx |-> IF c.keystream.last_block_index # Div64by64(start_offset)
                        THEN helix2_buffer_set_next_block(c, Div64by64(start_offset))
                        ELSE c,
                buffer |-> buffer,
                current_block |-> Div64by64(start_offset),
                block_offset |-> Mod64by64(start_offset),
                trace |-> <<>>],
               0, size + 1)

\* helix2_buffer
helix2_buffer(c, buffer, size, start_offset) ==
    BufferLoop([ctx |-> IF c.keystream.last_block_index # Div64by64(start_offset)
                        THEN helix2_buffer_set_next_block(c, Div64by64(start_offset))
                        ELSE c,
                buffer |-> buffer,
                current_block |-> Div64by64(start_offset),
                block_offset |-> Mod64by64(start_offset),
                trace |-> <<>>],
               0, size)

----------------------------------------------------------------------------
(* The generation path that regenerates unconditionally (src/unnamed/       *)
(* part_003).  Its helix2_context_t has the fields nonce, key, stream and   *)
(* state only.                                                              *)

\* rows and diagonals, then the state addition
Round1_unconditional(s, state) ==
    CHOOSE r \in {AddState(Diagonals(rs), state) : rs \in {Rows(s)}} : TRUE

\* columns and mirrored diagonals, then the state addition
Round2_unconditional(s, state) ==
    CHOOSE r \in {AddState(MirroredDiagonals(cs), state) : cs \in {Columns(s)}} : TRUE

\* the per-block state for block_index
BlockState_unconditional(c, block_index) ==
    [c.state EXCEPT ![10] = Low32(block_index),
                    ![11] = Xor32(_pack4(c.nonce, 0), High32(block_index))]

\* _helix2_initialize_keystream(context, block_index) of part_003
_helix2_initialize_keystream_unconditional(c, block_index) ==
    CHOOSE r \in {[c EXCEPT !.state = st,
                            !.stream = Round2_unconditional(
                                           Round1_unconditional(st, st), st)] :
                      st \in {BlockState_unconditional(c, block_index)}} : TRUE

\* helix2_initialize_context of part_003: no block is generated
helix2_initialize_context_unconditional(key, nonce) ==
    [nonce |-> [i \in 0..19 |-> nonce[i]],
     key |-> [i \in 0..31 |-> key[i]],
     stream |-> [i \in 0..15 |-> Zero32],
     state |-> SeedState(key, nonce)]

\* one iteration of the for loop of part_003's helix2_buffer
BufferStep_unconditional(st, i) ==
    IF st.block_offset >= HELIX2_KEYSTREAM_SIZE
    THEN CHOOSE r \in {[ctx |-> c,
                        buffer |-> [st.buffer EXCEPT
                                      ![i] = Xor8(@, KeystreamByte(c.stream, 0))],
                        current_block |-> Inc64(st.current_block),
                        block_offset |-> 1] :
                          c \in {_helix2_initialize_keystream_unconditional(
                                     st.ctx, Inc64(st.current_block))}} : TRUE
    ELSE [ctx |-> st.ctx,
          buffer |-> [st.buffer EXCEPT
                        ![i] = Xor8(@, KeystreamByte(st.ctx.stream, st.block_offset))],
          current_block |-> st.current_block,
          block_offset |-> (st.block_offset + 1) % 256]

RECURSIVE BufferLoop_unconditional(_, _, _)
BufferLoop_unconditional(st, lo, hi) ==
    IF hi <= lo THEN st
    ELSE IF hi = lo + 1 THEN BufferStep_unconditional(st, lo)
    ELSE CHOOSE r \in {BufferLoop_unconditional(half, (lo + hi) \div 2, hi) :
                           half \in {BufferLoop_unconditional(
                                         st, lo, (lo + hi) \div 2)}} : TRUE

\* helix2_buffer of part_003
helix2_buffer_unconditional(c, buffer, size, start_offset) ==
    BufferLoop_unconditional(
        [ctx |-> _helix2_initialize_keystream_unconditional(
                     c, Div64by64(start_offset)),
         buffer |-> buffer,
         current_block |-> Div64by64(start_offset),
         block_offset |-> Mod64by64(start_offset)],
        0, size)

----------------------------------------------------------------------------
(* Inputs *)

MaxLen == 100       \* longest range passed to helix2_buffer
MaxCalls == 2       \* calls served by a context after its construction
MaxOps == 10        \* operations each of two interleaved contexts performs

Ctxs == {1, 2}

ZeroKey == [i \in 0..31 |-> 0]
LastByteKey == [i \in 0..31 |-> IF i = 31 THEN 1 ELSE 0]
\* the key of the test suite
TestKey ==
    [i \in 0..31 |->
        <<120, 86, 52, 18, 1, 239, 205, 171, 17, 17, 17, 17, 34, 34, 34, 34,
          51, 51, 51, 51, 68, 68, 68, 68, 85, 85, 85, 85, 102, 102, 102, 102>>[i + 1]]

ZeroNonce == [i \in 0..19 |-> 0]
\* the nonce of test_symmetry
TestNonce == [i \in 0..19 |-> IF i < 4 THEN <<1, 239, 205, 171>>[i + 1] ELSE 0]

\* (key, nonce) pairs a context is constructed with
Params == {<<ZeroKey, ZeroNonce>>, <<LastByteKey, ZeroNonce>>, <<TestKey, TestNonce>>}

\* what the memory of a context may hold before construction
Garbage ==
    {ZeroContext,
     [nonce |-> [i \in 0..19 |-> 255],
      key |-> [i \in 0..31 |-> 255],
      keystream |-> [stream |-> [i \in 0..15 |-> W32(65535, 65535)],
                     state |-> [i \in 0..15 |-> W32(65535, 65535)],
                     current_block_index |-> U64(0, 0, 0, 7),
                     last_block_index |-> U64(0, 0, 0, 9)],
      gens |-> 0]}

\* byte offsets for helix2_byte: byte 3 of block 0, byte 5 of block 2^32,
\* byte 2 of block 2^32 and the last byte of the last addressable block
\* (2^58 - 1)
ByteOffsets == {U64(0, 0, 0, 3), U64(0, 64, 0, 5), U64(0, 64, 0, 2), Max64}

InputBytes == {0, 165}

\* block indices for helix2_buffer_set_next_block
SeekBlocks == {Zero64, U64(0, 0, 65535, 65535), U64(0, 1, 0, 0), Max64}

\* (start offset, size) pairs for helix2_buffer: from offset 30 in block 0,
\* from two bytes before the end of block 2^32 - 1, and from the last byte
\* offset 2^64 - 1
Ranges ==
    {<<U64(0, 0, 0, 30), 0>>, <<U64(0, 0, 0, 30), 1>>, <<U64(0, 0, 0, 30), MaxLen>>,
     <<U64(0, 63, 65535, 65534), 2>>, <<U64(0, 63, 65535, 65534), 3>>,
     <<Max64, 1>>, <<Max64, 2>>}

\* the caller's buffer: MaxLen bytes of data and one byte beyond
InputBuffer == [i \in 0..MaxLen |-> (37 * i + 11) % 256]

----------------------------------------------------------------------------
(* State *)

VARIABLES
    ctx,     \* ctx[k]: the helix2_context_t of stream k
    live,    \* live[k]: helix2_initialize_context has run on ctx[k]
    calls,   \* calls[k]: calls served by ctx[k] since its construction
    last     \* last[k]: the call on ctx[k] whose result the caller holds

vars == <<ctx, live, calls, last>>

\* no result held
NoCall ==
    [op |-> "none", pre |-> ZeroContext, key |-> ZeroKey, nonce |-> ZeroNonce,
     arg |-> Zero64, size |-> 0, byte_in |-> 0, byte_out |-> 0, idx |-> 0,
     buf_in |-> <<>>, buf_out |-> <<>>, trace |-> <<>>]

\* the context at the start of a call: the ghost counter restarts
Enter(c) == [c EXCEPT !.gens = 0]

\* the caller holds no result of ctx[k]
Idle(k) == last[k].op = "none"

\* ctx[k] is constructed and may serve another call
Ready(k) == Idle(k) /\ live[k] /\ calls[k] < MaxCalls

----------------------------------------------------------------------------
(* Operations *)

Initialize(k, key, nonce) ==
    /\ Idle(k)
    /\ ctx' = [ctx EXCEPT ![k] = helix2_initialize_context(Enter(ctx[k]), key, nonce)]
    /\ live' = [live EXCEPT ![k] = TRUE]
    /\ calls' = [calls EXCEPT ![k] = 0]
    /\ last' = [last EXCEPT ![k] = [NoCall EXCEPT !.op = "init", !.pre = ctx[k],
                                                  !.key = key, !.nonce = nonce]]

Byte(k, offset, byte) ==
    /\ Ready(k)
    /\ \E r \in {helix2_byte(Enter(ctx[k]), offset, byte)} :
           /\ ctx' = [ctx EXCEPT ![k] = r.ctx]
           /\ last' = [last EXCEPT ![k] =
                  [NoCall EXCEPT !.op = "byte", !.pre = ctx[k], !.arg = offset,
                                 !.byte_in = byte, !.byte_out = r.result,
                                 !.idx = r.idx]]
    /\ calls' = [calls EXCEPT ![k] = @ + 1]
    /\ UNCHANGED live

Buffer(k, buffer, size, start_offset) ==
    /\ Ready(k)
    /\ \E r \in {helix2_buffer(Enter(ctx[k]), buffer, size, start_offset)} :
           /\ ctx' = [ctx EXCEPT ![k] = r.ctx]
           /\ last' = [last EXCEPT ![k] =
                  [NoCall EXCEPT !.op = "buffer", !.pre = ctx[k],
                                 !.arg = start_offset, !.size = size,
                                 !.buf_in = buffer, !.buf_out = r.buffer,
                                 !.trace = r.trace]]
    /\ calls' = [calls EXCEPT ![k] = @ + 1]
    /\ UNCHANGED live

SetNextBlock(k, block_index) ==
    /\ Ready(k)
    /\ ctx' = [ctx EXCEPT ![k] = helix2_buffer_set_next_block(Enter(ctx[k]), block_index)]
    /\ last' = [last EXCEPT ![k] =
           [NoCall EXCEPT !.op = "set_block", !.pre = ctx[k], !.arg = block_index]]
    /\ calls' = [calls EXCEPT ![k] = @ + 1]
    /\ UNCHANGED live

NextBlock(k) ==
    /\ Ready(k)
    /\ ctx' = [ctx EXCEPT ![k] = helix2_buffer_next_block(Enter(ctx[k]))]
    /\ last' = [last EXCEPT ![k] = [NoCall EXCEPT !.op = "next_block", !.pre = ctx[k]]]
    /\ calls' = [calls EXCEPT ![k] = @ + 1]
    /\ UNCHANGED live

\* the caller is done with the results it holds
Consume ==
    /\ \E k \in Ctxs : ~Idle(k)
    /\ last' = [k \in Ctxs |-> NoCall]
    /\ ctx' = [k \in Ctxs |-> Enter(ctx[k])]
    /\ UNCHANGED <<live, calls>>

----------------------------------------------------------------------------
(* Spec: one stream, every operation, starting from unconstructed memory *)

Init ==
    /\ ctx \in [Ctxs -> Garbage]
    /\ ctx[2] = ZeroContext
    /\ live = [k \in Ctxs |-> FALSE]
    /\ calls = [k \in Ctxs |-> 0]
    /\ last = [k \in Ctxs |-> NoCall]

Next ==
    \/ \E p \in Params : Initialize(1, p[1], p[2])
    \/ \E o \in ByteOffsets, b \in InputBytes : Byte(1, o, b)
    \/ \E r \in Ranges : Buffer(1, InputBuffer, r[2], r[1])
    \/ \E i \in SeekBlocks : SetNextBlock(1, i)
    \/ NextBlock(1)
    \/ Consume

Spec == Init /\ [][Next]_vars

----------------------------------------------------------------------------
(* SpecPair: two constructed streams served by helix2_byte.  Stream 1 is  *)
(* driven freely; stream 2 is asked for the offset stream 1 was just asked *)
(* for, with the same input byte or with the byte stream 1 returned, as    *)
(* test_determinism and test_symmetry do.                                  *)

\* the parameters of stream 1 and of stream 2
PairParams ==
    {<<<<ZeroKey, ZeroNonce>>, <<ZeroKey, ZeroNonce>>>>,
     <<<<TestKey, TestNonce>>, <<TestKey, TestNonce>>>>,
     <<<<TestKey, TestNonce>>, <<ZeroKey, ZeroNonce>>>>}

InitPair ==
    /\ \E pq \in PairParams :
          ctx = [k \in Ctxs |->
                    Enter(helix2_initialize_context(ZeroContext, pq[k][1], pq[k][2]))]
    /\ live = [k \in Ctxs |-> TRUE]
    /\ calls = [k \in Ctxs |-> 0]
    /\ last = [k \in Ctxs |-> NoCall]

PeerByte ==
    /\ last[1].op = "byte"
    /\ \E b \in {last[1].byte_in, last[1].byte_out} : Byte(2, last[1].arg, b)

NextPair ==
    \/ \E o \in ByteOffsets, b \in InputBytes : Idle(2) /\ Byte(1, o, b)
    \/ PeerByte
    \/ Consume

SpecPair == InitPair /\ [][NextPair]_vars

----------------------------------------------------------------------------
(* SpecChunk: the bulk I/O driver.  Stream 1 transforms a whole buffer in   *)
(* one helix2_buffer call; stream 2, constructed with the same key and      *)
(* nonce, transforms the same buffer chunk by chunk, each chunk at the      *)
(* initial offset plus the byte count already processed.  last[2] holds the *)
(* driver's progress: size is the byte count processed, idx the number of   *)
(* chunks, buf_out the data as transformed so far.                          *)

\* x + n modulo 2^64 for 0 <= n < 65536 (file_offset += bytes_read)
Add64(x, n) ==
    U64((x[1] + ((x[2] + ((x[3] + ((x[4] + n) \div 65536)) \div 65536)) \div 65536))
            % 65536,
        (x[2] + ((x[3] + ((x[4] + n) \div 65536)) \div 65536)) % 65536,
        (x[3] + ((x[4] + n) \div 65536)) % 65536,
        (x[4] + n) % 65536)

\* (initial offset, total size) of the data the driver processes: from
\* offset 0, from offset 30 and from two bytes before block 2^32
ChunkRanges ==
    {<<Zero64, MaxLen>>, <<U64(0, 0, 0, 30), MaxLen>>,
     <<U64(0, 63, 65535, 65534), MaxLen - 30>>}

\* chunk sizes the driver reads, besides the rest of the data
ChunkSizes == {7, 34, 64}

InitChunk ==
    /\ \E p \in {<<ZeroKey, ZeroNonce>>, <<TestKey, TestNonce>>} :
          ctx = [k \in Ctxs |->
                    Enter(helix2_initialize_context(ZeroContext, p[1], p[2]))]
    /\ live = [k \in Ctxs |-> TRUE]
    /\ calls = [k \in Ctxs |-> 0]
    /\ last = [k \in Ctxs |-> NoCall]

\* one helix2_buffer call over the whole data; the driver starts on a copy
WholeRange(buffer, size, start_offset) ==
    /\ Ready(1) /\ Idle(2)
    /\ \E r \in {helix2_buffer(Enter(ctx[1]), buffer, size, start_offset)} :
           /\ ctx' = [ctx EXCEPT ![1] = r.ctx]
           /\ last' = [last EXCEPT
                  ![1] = [NoCall EXCEPT !.op = "buffer", !.pre = ctx[1],
                                        !.arg = start_offset, !.size = size,
                                        !.buf_in = buffer, !.buf_out = r.buffer,
                                        !.trace = r.trace],
                  ![2] = [NoCall EXCEPT !.op = "chunks", !.pre = ctx[2],
                                        !.arg = start_offset,
                                        !.buf_in = buffer, !.buf_out = buffer]]
    /\ calls' = [calls EXCEPT ![1] = @ + 1]
    /\ UNCHANGED live

\* the driver's loop body for a chunk of n bytes: the chunk is read to the
\* start of the driver's buffer, transformed at file_offset and written out
Chunk(n) ==
    /\ last[2].op = "chunks"
    /\ n >= 1
    /\ last[2].size + n <= last[1].size
    /\ \E r \in {helix2_buffer(Enter(ctx[2]),
                               [i \in 0..(n - 1) |-> last[2].buf_out[last[2].size + i]],
                               n, Add64(last[2].arg, last[2].size))} :
           /\ ctx' = [ctx EXCEPT ![2] = r.ctx]
           /\ last' = [last EXCEPT
                  ![2].buf_out = [i \in DOMAIN @ |->
                                     IF i >= last[2].size /\ i < last[2].size + n
                                     THEN r.buffer[i - last[2].size]
                                     ELSE @[i]],
                  ![2].size = @ + n,
                  ![2].idx = @ + 1]
    /\ UNCHANGED <<live, calls>>

NextChunk ==
    \/ \E r \in ChunkRanges : WholeRange(InputBuffer, r[2], r[1])
    \/ \E n \in ChunkSizes : Chunk(n)
    \/ Chunk(last[1].size - last[2].size)
    \/ Consume

SpecChunk == InitChunk /\ [][NextChunk]_vars

----------------------------------------------------------------------------
(* SpecArrays: construction from the caller's arrays.  The nonce array the  *)
(* caller passes has 20 bytes or, as in test_vectors, 16; the function      *)
(* receives a pointer and copies 20 bytes from it, so for the short array   *)
(* bytes 16..19 are whatever lies behind it in memory.                      *)

\* vector_nonce2 of test_vectors
ShortNonce == [i \in 0..15 |-> IF i = 11 THEN 1 ELSE 0]

\* nonce arrays a caller passes
NonceArrays == {ZeroNonce, TestNonce, ShortNonce}

\* what the four bytes behind a 16-byte array may hold
BytesBehind == {[i \in 16..19 |-> 0], [i \in 16..19 |-> 255],
                [i \in 16..19 |-> 10 * i + 1]}

\* the len bytes memcpy reads from the start of array a
Read(a, behind, len) ==
    [i \in 0..(len - 1) |-> IF i \in DOMAIN a THEN a[i] ELSE behind[i]]

\* helix2_initialize_context(&ctx[k], key, nonce) for a nonce array of any
\* size; last[k].size records the size of the array
InitializeFrom(k, key, nonce, behind) ==
    /\ Idle(k)
    /\ ctx' = [ctx EXCEPT ![k] =
                  helix2_initialize_context(Enter(ctx[k]), key,
                                            Read(nonce, behind, 20))]
    /\ live' = [live EXCEPT ![k] = TRUE]
    /\ calls' = [calls EXCEPT ![k] = 0]
    /\ last' = [last EXCEPT ![k] =
           [NoCall EXCEPT !.op = "init", !.pre = ctx[k], !.key = key,
                          !.nonce = nonce, !.size = Cardinality(DOMAIN nonce)]]

NextArrays ==
    \/ \E n \in NonceArrays, y \in BytesBehind : InitializeFrom(1, ZeroKey, n, y)
    \/ \E o \in ByteOffsets, b \in InputBytes : Byte(1, o, b)
    \/ Consume

SpecArrays == Init /\ [][NextArrays]_vars

----------------------------------------------------------------------------
(* SpecTwo: two contexts constructed with the same key and nonce, each      *)
(* performing its own sequence of operations; the steps of the two          *)
(* sequences interleave in every possible way.                              *)

\* operation number i (from 0) of context k: helix2_byte, helix2_buffer,
\* helix2_buffer_set_next_block and helix2_buffer_next_block in turn, at
\* offsets and indices that differ between the two contexts
ScriptOp(k, i) ==
    [op |-> <<"byte", "buffer", "set_block", "next_block">>[(i % 4) + 1],
     offset |-> IF i % 4 = 0 THEN U64(0, 0, k - 1, 70 * i + 5)
                ELSE U64(0, 0, 0, 60 * k + 10 * i),
     block_index |-> U64(0, k, 0, i),
     byte |-> 165,
     size |-> MaxLen - 30]

\* the call o on context c: the context after it and what it returns
Apply(c, o) ==
    IF o.op = "byte"
    THEN CHOOSE n \in {[ctx |-> r.ctx, byte_out |-> r.result, buf_out |-> <<>>] :
                          r \in {helix2_byte(c, o.offset, o.byte)}} : TRUE
    ELSE IF o.op = "buffer"
    THEN CHOOSE n \in {[ctx |-> r.ctx, byte_out |-> 0, buf_out |-> r.buffer] :
                          r \in {helix2_buffer(c, InputBuffer, o.size, o.offset)}} : TRUE
    ELSE IF o.op = "set_block"
    THEN [ctx |-> helix2_buffer_set_next_block(c, o.block_index),
          byte_out |-> 0, buf_out |-> <<>>]
    ELSE [ctx |-> helix2_buffer_next_block(c), byte_out |-> 0, buf_out |-> <<>>]

InitTwo ==
    /\ ctx = [k \in Ctxs |->
                 Enter(helix2_initialize_context(ZeroContext, TestKey, TestNonce))]
    /\ live = [k \in Ctxs |-> TRUE]
    /\ calls = [k \in Ctxs |-> 0]
    /\ last = [k \in Ctxs |-> NoCall]

\* Operate with the keystream structure kept in one static object that
\* every context uses
Operate_static_keystream(k) ==
    /\ calls[k] < MaxOps
    /\ \E r \in {Apply(Enter(ctx[k]), ScriptOp(k, calls[k]))} :
           /\ ctx' = [j \in Ctxs |-> [ctx[j] EXCEPT !.keystream = r.ctx.keystream,
                                                    !.gens = IF j = k THEN r.ctx.gens
                                                             ELSE @]]
           /\ last' = [last EXCEPT ![k] =
                  [NoCall EXCEPT !.op = ScriptOp(k, calls[k]).op,
                                 !.byte_out = r.byte_out, !.buf_out = r.buf_out]]
    /\ calls' = [calls EXCEPT ![k] = @ + 1]
    /\ UNCHANGED live

\* context k performs its next operation
Operate(k) ==
    /\ calls[k] < MaxOps
    /\ \E r \in {Apply(Enter(ctx[k]), ScriptOp(k, calls[k]))} :
           /\ ctx' = [ctx EXCEPT ![k] = r.ctx]
           /\ last' = [last EXCEPT ![k] =
                  [NoCall EXCEPT !.op = ScriptOp(k, calls[k]).op,
                                 !.byte_out = r.byte_out, !.buf_out = r.buf_out]]
    /\ calls' = [calls EXCEPT ![k] = @ + 1]
    /\ UNCHANGED live

NextTwo == \E k \in Ctxs : Operate(k)

SpecTwo == InitTwo /\ [][NextTwo]_vars

----------------------------------------------------------------------------
(* SpecMix: _helix2_shuffle applied to a working array, one group of        *)
(* positions at a time.                                                     *)

MaxMixes == 2       \* shuffles applied to a working array

\* working arrays: all bits set, a seed state, and words with their top
\* bits set at every position
WorkingArrays ==
    {[i \in 0..15 |-> W32(65535, 65535)],
     SeedState(TestKey, TestNonce),
     [i \in 0..15 |-> W32(32768 + 257 * i, 65535 - 4099 * i)]}

\* groups of positions passed to _helix2_shuffle: a row, a column, two
\* diagonals, a mirrored diagonal and the last row
Groups ==
    {<<0, 1, 2, 3>>, <<0, 4, 8, 12>>, <<0, 5, 10, 15>>, <<3, 4, 9, 14>>,
     <<3, 6, 9, 12>>, <<12, 13, 14, 15>>}

InitMix ==
    /\ \E w \in WorkingArrays :
           ctx = [k \in Ctxs |-> [ZeroContext EXCEPT !.keystream.stream = w]]
    /\ live = [k \in Ctxs |-> FALSE]
    /\ calls = [k \in Ctxs |-> 0]
    /\ last = [k \in Ctxs |-> NoCall]

\* _helix2_shuffle(ctx[k].keystream.stream, g[1], g[2], g[3], g[4])
Mix(k, g) ==
    /\ calls[k] < MaxMixes
    /\ ctx' = [ctx EXCEPT ![k].keystream.stream =
                  _helix2_shuffle(@, g[1], g[2], g[3], g[4])]
    /\ last' = [last EXCEPT ![k] =
           [NoCall EXCEPT !.op = "mix", !.pre = ctx[k], !.arg = g]]
    /\ calls' = [calls EXCEPT ![k] = @ + 1]
    /\ UNCHANGED live

NextMix == \E g \in Groups : Mix(1, g)

SpecMix == InitMix /\ [][NextMix]_vars

----------------------------------------------------------------------------
(* SpecRace: two threads, each running one helix2_byte call on the same     *)
(* context ctx[1] with no lock, interleaved between statements.  last[t] is *)
(* the call of thread t: op is the statement it executes next, idx its      *)
(* local block_offset, block_index the parameter of                         *)
(* helix2_buffer_set_next_block, and overlapped a ghost flag set when the   *)
(* two calls overlap in time.  The twelve shuffles and sixteen additions of *)
(* a round are one step.                                                    *)

\* the offsets of the two calls: both outside the cached block 0, and one
\* inside it
RaceOffsets ==
    {<<U64(0, 0, 0, 67), U64(0, 0, 0, 133)>>,
     <<U64(0, 0, 0, 3), U64(0, 64, 0, 5)>>}

RaceCall(offset, byte) ==
    [op |-> "enter", arg |-> offset, byte_in |-> byte, byte_out |-> 0,
     idx |-> 0, block_index |-> Zero64, overlapped |-> FALSE]

InitRace ==
    /\ ctx = [k \in Ctxs |->
                 Enter(helix2_initialize_context(ZeroContext, TestKey, TestNonce))]
    /\ live = [k \in Ctxs |-> TRUE]
    /\ calls = [k \in Ctxs |-> 0]
    /\ \E o \in RaceOffsets :
           last = [t \in Ctxs |-> RaceCall(o[t], 165)]

\* the call of thread u has started and has not returned
UnderWay(u) == last[u].op \notin {"enter", "done"}

\* thread t has run a statement that leaves its call as new and the shared
\* context as c; a call is overlapped when it runs a statement while the
\* other call is under way, or the other way round
Ran(t, new, c) ==
    /\ ctx' = [ctx EXCEPT ![1] = c]
    /\ last' = [u \in Ctxs |->
                   IF u = t
                   THEN [new EXCEPT
                           !.overlapped = @ \/ \E v \in Ctxs \ {t} : UnderWay(v)]
                   ELSE [last[u] EXCEPT !.overlapped = @ \/ UnderWay(u)]]
    /\ calls' = [calls EXCEPT ![t] = @ + 1]
    /\ UNCHANGED live

\* current_block_index = offset / 64; block_offset = offset % 64
RaceEnter(t) ==
    /\ last[t].op = "enter"
    /\ Ran(t, [last[t] EXCEPT !.op = "check", !.idx = Mod64by64(last[t].arg)],
           [ctx[1] EXCEPT !.keystream.current_block_index = Div64by64(last[t].arg)])

\* RaceCheck that never calls helix2_buffer_set_next_block
RaceCheck_no_generation(t) ==
    /\ last[t].op = "check"
    /\ Ran(t, [last[t] EXCEPT !.op = "xor"], ctx[1])

\* if (last_block_index != current_block_index), and the argument of
\* helix2_buffer_set_next_block read from current_block_index
RaceCheck(t) ==
    /\ last[t].op = "check"
    /\ Ran(t,
           IF ctx[1].keystream.last_block_index # ctx[1].keystream.current_block_index
           THEN [last[t] EXCEPT !.op = "set",
                                !.block_index = ctx[1].keystream.current_block_index]
           ELSE [last[t] EXCEPT !.op = "xor"],
           ctx[1])

\* helix2_buffer_set_next_block: current_block_index = block_index
RaceSet(t) ==
    /\ last[t].op = "set"
    /\ Ran(t, [last[t] EXCEPT !.op = "counter"],
           [ctx[1] EXCEPT !.keystream.current_block_index = last[t].block_index])

\* _helix2_initialize_keystream: state[10] and state[11]
RaceCounter(t) ==
    /\ last[t].op = "counter"
    /\ Ran(t, [last[t] EXCEPT !.op = "copy"],
           [ctx[1] EXCEPT
              !.keystream.state[10] = Low32(ctx[1].keystream.current_block_index),
              !.keystream.state[11] =
                  Xor32(_pack4(ctx[1].nonce, 0),
                        High32(ctx[1].keystream.current_block_index))])

\* memcpy(stream, state, HELIX2_KEYSTREAM_SIZE)
RaceCopy(t) ==
    /\ last[t].op = "copy"
    /\ Ran(t, [last[t] EXCEPT !.op = "round1"],
           [ctx[1] EXCEPT !.keystream.stream = ctx[1].keystream.state])

\* a round on the stream as it is, and the addition of the state as it is
RaceRound(t, pc, next) ==
    /\ last[t].op = pc
    /\ Ran(t, [last[t] EXCEPT !.op = next],
           [ctx[1] EXCEPT !.keystream.stream =
               AddState(Round(ctx[1].keystream.stream), ctx[1].keystream.state)])

\* last_block_index = current_block_index
RaceMark(t) ==
    /\ last[t].op = "mark"
    /\ Ran(t, [last[t] EXCEPT !.op = "xor"],
           [ctx[1] EXCEPT !.keystream.last_block_index =
                              ctx[1].keystream.current_block_index])

\* return byte ^ keystream_bytes[block_offset]
RaceXor(t) ==
    /\ last[t].op = "xor"
    /\ Ran(t, [last[t] EXCEPT
                 !.op = "done",
                 !.byte_out = Xor8(last[t].byte_in,
                                   KeystreamByte(ctx[1].keystream.stream,
                                                 last[t].idx))],
           ctx[1])

NextRace ==
    \E t \in Ctxs :
        \/ RaceEnter(t)
        \/ RaceCheck(t)
        \/ RaceSet(t)
        \/ RaceCounter(t)
        \/ RaceCopy(t)
        \/ RaceRound(t, "round1", "round2")
        \/ RaceRound(t, "round2", "mark")
        \/ RaceMark(t)
        \/ RaceXor(t)

SpecRace == InitRace /\ [][NextRace]_vars

----------------------------------------------------------------------------
(* SpecAlias: two contexts of the same key whose nonces differ in bytes     *)
(* 0..3 only, each moved between block 0 and block 2^32.                    *)

\* a nonce that starts 01 00 00 00
OneNonce == [i \in 0..19 |-> IF i = 0 THEN 1 ELSE 0]

AliasNonces == {ZeroNonce, OneNonce}

AliasBlocks == {Zero64, U64(0, 1, 0, 0)}

InitAlias ==
    /\ \E n \in [Ctxs -> AliasNonces] :
           ctx = [k \in Ctxs |->
                     Enter(helix2_initialize_context(ZeroContext, TestKey, n[k]))]
    /\ live = [k \in Ctxs |-> TRUE]
    /\ calls = [k \in Ctxs |-> 0]
    /\ last = [k \in Ctxs |-> NoCall]

NextAlias ==
    \/ \E k \in Ctxs, i \in AliasBlocks : SetNextBlock(k, i)
    \/ Consume

SpecAlias == InitAlias /\ [][NextAlias]_vars

----------------------------------------------------------------------------
(* Reference definitions used by the properties *)

\* the keystream block of (key, nonce) for block index i, generated in a
\* context that has served nothing else
KeystreamBlock(key, nonce, i) ==
    _helix2_initialize_keystream(
        [ZeroContext EXCEPT !.key = key, !.nonce = nonce,
                            !.keystream.state = SeedState(key, nonce),
                            !.keystream.current_block_index = i]).keystream.stream

\* bits 8 * (p mod 4) .. 8 * (p mod 4) + 7 of word p div 4 of a block
BlockByte(block, p) ==
    LET w == block[p \div 4]
        sh == IF p % 4 = 0 THEN w ELSE Shr32(w, 8 * (p % 4))
    IN  sh[2] % 256

\* the fields of helix2_context_t agree (the ghost counter is not one)
SameContext(c, d) ==
    /\ c.nonce = d.nonce
    /\ c.key = d.key
    /\ c.keystream = d.keystream

\* start + n exceeds 2^64, for 0 <= n < 65536
PastEnd(start, n) ==
    /\ start[1] = 65535 /\ start[2] = 65535 /\ start[3] = 65535
    /\ start[4] + n > 65536

\* buffer[i] = helix2_byte(ctx, start + i, buffer[i]) for i = lo .. hi - 1,
\* in order, as a caller's loop over single bytes does
RECURSIVE SequentialBytes(_, _, _, _)
SequentialBytes(st, start, lo, hi) ==
    IF hi <= lo THEN st
    ELSE IF hi = lo + 1
    THEN CHOOSE n \in {[ctx |-> r.ctx,
                        buffer |-> [st.buffer EXCEPT ![lo] = r.result]] :
                           r \in {helix2_byte(st.ctx, Add64(start, lo),
                                              st.buffer[lo])}} : TRUE
    ELSE CHOOSE n \in {SequentialBytes(half, start, (lo + hi) \div 2, hi) :
                           half \in {SequentialBytes(st, start, lo,
                                                     (lo + hi) \div 2)}} : TRUE

\* the calls whose results the caller holds
Held(op) == {k \in Ctxs : last[k].op = op}

----------------------------------------------------------------------------
(* C1: helix2_buffer leaves in buf what size sequential helix2_byte calls   *)
(* at start, start + 1, ... return for the original bytes, for every        *)
(* context state, size and start offset.                                    *)
C1_RangeEqualsBytes ==
    \A k \in Held("buffer") :
        last[k].buf_out =
            SequentialBytes([ctx |-> Enter(last[k].pre), buffer |-> last[k].buf_in],
                            last[k].arg, 0, last[k].size).buffer

\* the same for the ranges that end at or before byte offset 2^64 - 1
RangeEqualsBytesBeforeEnd ==
    \A k \in Held("buffer") :
        ~PastEnd(last[k].arg, last[k].size) =>
            last[k].buf_out =
                SequentialBytes([ctx |-> Enter(last[k].pre), buffer |-> last[k].buf_in],
                                last[k].arg, 0, last[k].size).buffer

\* a range that runs past the last byte offset has been transformed
C1_PastEndRange ==
    \E k \in Held("buffer") : PastEnd(last[k].arg, last[k].size)

----------------------------------------------------------------------------
\* both streams hold the result of a helix2_byte call for the same offset
\* and were constructed with the same key and nonce
SameOffsetSameParams ==
    /\ last[1].op = "byte" /\ last[2].op = "byte"
    /\ last[1].arg = last[2].arg
    /\ ctx[1].key = ctx[2].key /\ ctx[1].nonce = ctx[2].nonce

\* the two streams had served different calls before: their caches held
\* different blocks when the calls were made
DifferentHistories ==
    last[1].pre.keystream.last_block_index # last[2].pre.keystream.last_block_index

(* C2: involution.  When two contexts constructed with the same key and     *)
(* nonce are asked for the same offset and the second is given the byte the *)
(* first returned, the second returns the byte the first was given,         *)
(* whatever either served before.                                           *)
C2_Involution ==
    (SameOffsetSameParams /\ last[2].byte_in = last[1].byte_out)
        => last[2].byte_out = last[1].byte_in

C2_Witness ==
    /\ SameOffsetSameParams
    /\ last[2].byte_in = last[1].byte_out
    /\ last[2].byte_in # last[1].byte_in
    /\ DifferentHistories

(* C3: random-access independence.  The byte helix2_byte returns for an     *)
(* offset is the byte a freshly constructed context of the same key and     *)
(* nonce returns when asked for that offset directly, whatever offsets the  *)
(* context served before.                                                   *)
C3_RandomAccess ==
    \A k \in Held("byte") :
        last[k].byte_out =
            helix2_byte(helix2_initialize_context(ZeroContext, ctx[k].key, ctx[k].nonce),
                        last[k].arg, last[k].byte_in).result

\* a context that has already served another block is asked for an offset
\* outside block 0
C3_Witness ==
    \E k \in Held("byte") :
        /\ calls[k] > 1
        /\ last[k].pre.keystream.last_block_index # Zero64
        /\ Div64by64(last[k].arg) # Zero64
        /\ Div64by64(last[k].arg) # last[k].pre.keystream.last_block_index

(* C4: determinism.  Two contexts constructed with the same key and nonce   *)
(* return the same byte for the same (offset, input) at every step, also    *)
(* when they served different calls before.                                 *)
C4_Determinism ==
    (SameOffsetSameParams /\ last[1].byte_in = last[2].byte_in)
        => last[1].byte_out = last[2].byte_out

C4_Witness ==
    /\ SameOffsetSameParams
    /\ last[1].byte_in = last[2].byte_in
    /\ DifferentHistories
    /\ calls[1] > calls[2]

----------------------------------------------------------------------------
(* C5: helix2_byte(ctx, offset, b) returns b XOR the byte at position       *)
(* offset mod 64 of the keystream block for index offset div 64, where      *)
(* byte p of a block is bits 8 * (p mod 4) .. 8 * (p mod 4) + 7 of word     *)
(* p div 4.                                                                 *)
C5_ByteTransform ==
    \A k \in Held("byte") :
        last[k].byte_out =
            Xor8(last[k].byte_in,
                 BlockByte(KeystreamBlock(ctx[k].key, ctx[k].nonce,
                                          Div64by64(last[k].arg)),
                           Mod64by64(last[k].arg)))

\* the last byte offset, 2^64 - 1, has been served with a non-zero input
C5_Witness ==
    \E k \in Held("byte") :
        /\ last[k].arg = Max64
        /\ last[k].byte_in # 0
        /\ last[k].idx = 63

----------------------------------------------------------------------------
\* the block index of byte i of a range that starts at offset start
BlockOfRangeByte(start, i) ==
    Add64(Div64by64(start), (Mod64by64(start) + i) \div HELIX2_KEYSTREAM_SIZE)

\* every XOR step of the held helix2_buffer call read the keystream of the
\* block its byte lies in
TraceReadsOwnBlock(k) ==
    LET t == last[k].trace
    IN  /\ \A j \in DOMAIN t :
               t[j].blk = BlockOfRangeByte(last[k].arg, t[j].pos)
        /\ \A b \in {t[j].blk : j \in DOMAIN t} :
               \A stream \in {KeystreamBlock(ctx[k].key, ctx[k].nonce, b)} :
                   \A j \in DOMAIN t :
                       t[j].blk = b =>
                           t[j].ks = KeystreamByte(stream, t[j].idx)

(* C6: in every state after construction the cached block is the keystream  *)
(* block of (key, nonce, last_block_index); whenever helix2_byte or         *)
(* helix2_buffer XORs a byte, last_block_index is the block of that byte    *)
(* and the cached block is that block's keystream.                          *)
C6_CacheValid ==
    \A k \in Ctxs :
        /\ live[k] =>
              ctx[k].keystream.stream =
                  KeystreamBlock(ctx[k].key, ctx[k].nonce,
                                 ctx[k].keystream.last_block_index)
        /\ last[k].op = "byte" =>
              ctx[k].keystream.last_block_index = Div64by64(last[k].arg)
        /\ last[k].op = "buffer" => TraceReadsOwnBlock(k)

\* a range over three blocks has been transformed
C6_Witness ==
    \E k \in Held("buffer") :
        /\ last[k].size = MaxLen
        /\ Cardinality({last[k].trace[j].blk : j \in DOMAIN last[k].trace}) = 3
        /\ ctx[k].keystream.last_block_index # last[k].pre.keystream.last_block_index

----------------------------------------------------------------------------
(* C7: after construction and after every block generation for index i,     *)
(* state word 10 is the low 32 bits of i and state word 11 is               *)
(* pack4(nonce[0..3]) XOR the high 32 bits of i; i = 0xFFFFFFFF gives       *)
(* word 10 = 0xFFFFFFFF with high contribution 0, i = 0x100000000 gives     *)
(* word 10 = 0 with high contribution 1, and i = 2^64 - 1 gives             *)
(* word 10 = 0xFFFFFFFF with high contribution 0xFFFFFFFF.                  *)
C7_CounterWords ==
    \A k \in Ctxs :
        live[k] =>
            LET i == ctx[k].keystream.last_block_index
                w10 == ctx[k].keystream.state[10]
                w11 == ctx[k].keystream.state[11]
                n == W32(ctx[k].nonce[3] * 256 + ctx[k].nonce[2],
                         ctx[k].nonce[1] * 256 + ctx[k].nonce[0])
            IN  /\ w10 = W32(i[3], i[4])
                /\ w11 = Xor32(n, W32(i[1], i[2]))
                /\ i = U64(0, 0, 65535, 65535) =>
                      w10 = W32(65535, 65535) /\ w11 = n
                /\ i = U64(0, 1, 0, 0) =>
                      w10 = W32(0, 0) /\ w11 = Xor32(n, W32(0, 1))
                /\ i = Max64 =>
                      w10 = W32(65535, 65535) /\ w11 = Xor32(n, W32(65535, 65535))

\* block 0x100000000 has been generated in a context with a non-zero nonce
C7_Witness ==
    \E k \in Ctxs :
        /\ live[k]
        /\ ctx[k].gens > 0
        /\ ctx[k].keystream.last_block_index = U64(0, 1, 0, 0)
        /\ ctx[k].nonce = TestNonce
        /\ ctx[k].keystream.state[11] = W32(43981, 61184)

----------------------------------------------------------------------------
\* the first four bytes of the cached block
FirstBytes(c) == [p \in 0..3 |-> KeystreamByte(c.keystream.stream, p)]

(* C8: known-answer vectors.  Right after construction with 32 zero key     *)
(* bytes and 20 zero nonce bytes the first 4 bytes of keystream block 0 are *)
(* 14 84 EC FD; with the same nonce and a key whose only non-zero byte is   *)
(* its last byte (01) they are EF 71 CB C9.                                 *)
C8_KnownAnswers ==
    \A k \in Held("init") :
        /\ (last[k].key = ZeroKey /\ last[k].nonce = ZeroNonce) =>
              FirstBytes(ctx[k]) = [p \in 0..3 |-> <<20, 132, 236, 253>>[p + 1]]
        /\ (last[k].key = LastByteKey /\ last[k].nonce = ZeroNonce) =>
              FirstBytes(ctx[k]) = [p \in 0..3 |-> <<239, 113, 203, 201>>[p + 1]]

\* a context has just been constructed with the second vector's key
C8_Witness ==
    \E k \in Held("init") :
        /\ last[k].key = LastByteKey /\ last[k].nonce = ZeroNonce
        /\ FirstBytes(ctx[k])[0] = 239

----------------------------------------------------------------------------
(* C9: immediately after helix2_initialize_context(ctx, key, nonce),        *)
(* whatever ctx held before, current_block_index = last_block_index = 0     *)
(* and the cached block is the keystream block for index 0 of (key, nonce). *)
C9_Construction ==
    \A k \in Held("init") :
        /\ ctx[k].keystream.current_block_index = Zero64
        /\ ctx[k].keystream.last_block_index = Zero64
        /\ ctx[k].keystream.stream = KeystreamBlock(last[k].key, last[k].nonce, Zero64)

\* a context used under another key and left at another block has been
\* constructed again
C9_Witness ==
    \E k \in Held("init") :
        /\ last[k].pre.key = TestKey
        /\ last[k].key = ZeroKey
        /\ last[k].pre.keystream.last_block_index = Max64

----------------------------------------------------------------------------
----------------------------------------------------------------------------
(* C11: helix2_buffer_next_block has the effect of set_block for index      *)
(* (current_block_index + 1) mod 2^64: afterwards both indices equal that   *)
(* value and the cached block is its keystream; from 2^64 - 1 the index     *)
(* wraps to block 0.                                                        *)
C11_NextBlock ==
    \A k \in Held("next_block") :
        /\ ctx[k].keystream.current_block_index =
               Add64(last[k].pre.keystream.current_block_index, 1)
        /\ ctx[k].keystream.last_block_index =
               Add64(last[k].pre.keystream.current_block_index, 1)
        /\ ctx[k].keystream.stream =
               KeystreamBlock(ctx[k].key, ctx[k].nonce,
                              Add64(last[k].pre.keystream.current_block_index, 1))
        /\ last[k].pre.keystream.current_block_index = Max64 =>
               ctx[k].keystream.last_block_index = Zero64

\* the block after 2^64 - 1 has been requested
C11_Witness ==
    \E k \in Held("next_block") :
        /\ last[k].pre.keystream.current_block_index = Max64
        /\ ctx[k].keystream.current_block_index = Zero64
        /\ ctx[k].gens = 1

----------------------------------------------------------------------------
(* C12: chunking invariance.  When a buffer is split into consecutive       *)
(* chunks of arbitrary sizes and helix2_buffer is called on each chunk at   *)
(* the initial offset plus the byte count already processed, the bytes      *)
(* processed so far, and at the end the whole buffer, equal what a single   *)
(* helix2_buffer call over the whole buffer at the initial offset yields.   *)
C12_Chunking ==
    last[2].op = "chunks" =>
        /\ \A i \in 0..(last[2].size - 1) : last[2].buf_out[i] = last[1].buf_out[i]
        /\ last[2].size = last[1].size => last[2].buf_out = last[1].buf_out

\* the driver has finished a buffer over three blocks in at least three
\* chunks, one of them ending inside a block and one on a block boundary
C12_Witness ==
    /\ last[2].op = "chunks"
    /\ last[2].size = last[1].size
    /\ last[2].idx >= 3
    /\ last[1].arg = U64(0, 0, 0, 30)
    /\ last[2].pre.keystream.last_block_index # Zero64
    /\ last[1].buf_out # last[1].buf_in

----------------------------------------------------------------------------
(* C13: the two generation paths are byte-identical: for every key, nonce,  *)
(* buffer, length and start offset, helix2_buffer of the path that          *)
(* regenerates the block unconditionally (part_003) produces the output     *)
(* bytes of helix2_buffer of the path that checks the cached index          *)
(* (helix2.c).                                                              *)
C13_PathsIdentical ==
    \A k \in Held("buffer") :
        last[k].buf_out =
            helix2_buffer_unconditional(
                helix2_initialize_context_unconditional(ctx[k].key, ctx[k].nonce),
                last[k].buf_in, last[k].size, last[k].arg).buffer

----------------------------------------------------------------------------
\* the state words that do not depend on the block index
SeedWords == (0..9) \cup (12..15)

(* C14: after helix2_initialize_context has returned, no helix2_byte,       *)
(* helix2_buffer, helix2_buffer_set_next_block or helix2_buffer_next_block  *)
(* call changes the key, the nonce or the state words 0-9 and 12-15 of the  *)
(* context; only the state words 10 and 11, the cached block and the two    *)
(* block indices may change.                                                *)
C14_Frame ==
    [][\A k \in Ctxs :
          (live[k] /\ last'[k].op # "init") =>
              /\ ctx'[k].key = ctx[k].key
              /\ ctx'[k].nonce = ctx[k].nonce
              /\ \A w \in SeedWords :
                     ctx'[k].keystream.state[w] = ctx[k].keystream.state[w]]_vars

\* a second call has changed word 11, the cached block and the indices of a
\* context with a non-zero key
C14_Witness ==
    \E k \in Held("buffer") :
        /\ calls[k] = MaxCalls
        /\ ctx[k].key = TestKey
        /\ ctx[k].keystream.state[11] # last[k].pre.keystream.state[11]
        /\ ctx[k].keystream.stream # last[k].pre.keystream.stream
        /\ ctx[k].keystream.last_block_index # last[k].pre.keystream.last_block_index

----------------------------------------------------------------------------
\* context k running its operations lo .. hi - 1 alone, in order, after the
\* results in runs: element i + 1 of the sequence is the result of
\* operation i - 1 (element 1 is the context as constructed)
RECURSIVE SoloRuns(_, _, _, _)
SoloRuns(k, runs, lo, hi) ==
    IF hi <= lo THEN runs
    ELSE IF hi = lo + 1
    THEN Append(runs, Apply(Enter(runs[lo + 1].ctx), ScriptOp(k, lo)))
    ELSE CHOOSE r \in {SoloRuns(k, half, (lo + hi) \div 2, hi) :
                           half \in {SoloRuns(k, runs, lo, (lo + hi) \div 2)}} : TRUE

SoloTable ==
    [k \in Ctxs |->
        SoloRuns(k, <<[ctx |-> helix2_initialize_context(ZeroContext, TestKey,
                                                         TestNonce),
                       byte_out |-> 0, buf_out |-> <<>>]>>,
                 0, MaxOps)]

(* C15: distinct contexts are independent.  Under every interleaving of     *)
(* whole operations on two contexts constructed with the same key and       *)
(* nonce, the fields of each context and the bytes its last operation       *)
(* returned are those of the context running its own operation sequence     *)
(* alone; so an operation on one context changes no field of the other.     *)
C15_Independent ==
    \A k \in Ctxs :
        /\ SameContext(ctx[k], SoloTable[k][calls[k] + 1].ctx)
        /\ calls[k] > 0 =>
              /\ last[k].byte_out = SoloTable[k][calls[k] + 1].byte_out
              /\ last[k].buf_out = SoloTable[k][calls[k] + 1].buf_out

\* both contexts have performed all their operations, the last of them
\* leaving the two contexts at different blocks
C15_Witness ==
    /\ \A k \in Ctxs : calls[k] = MaxOps
    /\ ctx[1].keystream.last_block_index # ctx[2].keystream.last_block_index
    /\ ctx[1].keystream.stream # ctx[2].keystream.stream
    /\ ctx[1].key = ctx[2].key /\ ctx[1].nonce = ctx[2].nonce

----------------------------------------------------------------------------
(* C16 as stated: every cipher call, helix2_byte and helix2_buffer for any  *)
(* length and start offset, performs at most one block regeneration.        *)
C16_Original ==
    \A k \in Held("byte") \cup Held("buffer") : ctx[k].gens <= 1

\* the block boundaries a range of size bytes from offset start runs over
BoundariesCrossed(start, size) ==
    IF size = 0 THEN 0
    ELSE (Mod64by64(start) + size - 1) \div HELIX2_KEYSTREAM_SIZE

(* C16 as amended: helix2_byte performs at most one block regeneration,     *)
(* and none when the cache holds the block of the offset; helix2_buffer     *)
(* performs one regeneration for every block boundary its range runs over,  *)
(* and one more at its start when the cache does not hold the block of the  *)
(* start offset: at most one per block the range touches.                   *)
C16_Regenerations ==
    /\ \A k \in Held("byte") :
           ctx[k].gens =
               IF last[k].pre.keystream.last_block_index = Div64by64(last[k].arg)
               THEN 0 ELSE 1
    /\ \A k \in Held("buffer") :
           /\ ctx[k].gens =
                  BoundariesCrossed(last[k].arg, last[k].size)
                  + (IF last[k].pre.keystream.last_block_index = Div64by64(last[k].arg)
                     THEN 0 ELSE 1)
           /\ ctx[k].gens <= BoundariesCrossed(last[k].arg, last[k].size) + 1

\* a range over three blocks has been transformed by a context whose cache
\* held another block: three regenerations in one call
C16_Witness ==
    \E k \in Held("buffer") :
        /\ last[k].size = MaxLen
        /\ last[k].pre.keystream.last_block_index # Div64by64(last[k].arg)
        /\ ctx[k].gens = 3

----------------------------------------------------------------------------
(* C17: helix2_initialize_context given a nonce that is not exactly 20      *)
(* bytes fails fast, before any state is derived: it does not read beyond   *)
(* the supplied array and the context is left unchanged.                    *)
C17_InvalidInputRejected ==
    \A k \in Held("init") :
        last[k].size # 20 =>
            /\ SameContext(ctx[k], last[k].pre)
            /\ \A i \in 16..19 : ctx[k].nonce[i] = last[k].pre.nonce[i]

----------------------------------------------------------------------------
\* the context is in state Ready(j) of the state machine: its cache holds
\* the keystream block of index j
ReadyAt(c, j) ==
    /\ c.keystream.last_block_index = j
    /\ c.keystream.current_block_index = j
    /\ c.keystream.stream = KeystreamBlock(c.key, c.nonce, j)

(* C18: the context is Ready(0) after construction, Ready(offset div 64)    *)
(* after helix2_byte(offset), and after helix2_buffer over n >= 1 bytes     *)
(* Ready of the block of the last byte processed,                           *)
(* (start_offset + n - 1) div 64: a range that ends exactly on a 64-byte    *)
(* boundary leaves the block before the boundary in the cache.              *)
C18_StateMachine ==
    /\ \A k \in Held("init") : ReadyAt(ctx[k], Zero64)
    /\ \A k \in Held("byte") : ReadyAt(ctx[k], Div64by64(last[k].arg))
    /\ \A k \in Held("buffer") :
           last[k].size >= 1 =>
               ReadyAt(ctx[k], BlockOfRangeByte(last[k].arg, last[k].size - 1))

\* a range that ends exactly on a block boundary has been transformed by a
\* context whose cache held another block
C18_Witness ==
    \E k \in Held("buffer") :
        /\ last[k].size >= 1
        /\ Mod64by64(last[k].arg) + last[k].size = HELIX2_KEYSTREAM_SIZE
        /\ last[k].pre.keystream.last_block_index # Div64by64(last[k].arg)
        /\ ctx[k].keystream.last_block_index = Div64by64(last[k].arg)
        /\ ctx[k].gens = 1

----------------------------------------------------------------------------
\* the characters of "so!M4g1c"
MagicText == <<115, 111, 33, 77, 52, 103, 49, 99>>

\* the 64 bytes the seed words are packed from: the constant, the key, four
\* zero bytes and the nonce
SeedBytes(key, nonce) ==
    [p \in 0..63 |->
        IF p < 8 THEN MagicText[p + 1]
        ELSE IF p < 40 THEN key[p - 8]
        ELSE IF p < 44 THEN 0
        ELSE nonce[p - 44]]

\* byte j of a 32-bit word, counted from the low-order end: j = 0, 1 lie in
\* the low half of the word, j = 2, 3 in the high half
WordByte(w, j) ==
    (w[IF j < 2 THEN 2 ELSE 1] \div (IF j % 2 = 0 THEN 1 ELSE 256)) % 256

(* C19: after helix2_initialize_context, state words 0-1 hold "so!M4g1c",   *)
(* words 2-9 the 32 key bytes, word 10 zero, word 11 nonce bytes 0..3 and   *)
(* words 12-15 nonce bytes 4..19, each word packing 4 consecutive bytes     *)
(* low-order byte first.                                                    *)
C19_SeedLayout ==
    \A k \in Held("init") :
        \A p \in 0..63 :
            WordByte(ctx[k].keystream.state[p \div 4], p % 4) =
                SeedBytes(last[k].key, last[k].nonce)[p]

\* a context holding other state words has been constructed with the key
\* and nonce of the test suite, whose nonce bytes 0..3 differ from each other
C19_Witness ==
    \E k \in Held("init") :
        /\ last[k].key = TestKey /\ last[k].nonce = TestNonce
        /\ last[k].pre.keystream.state # ctx[k].keystream.state
        /\ last[k].pre.keystream.state[10] # Zero32
        /\ ctx[k].keystream.state[11] = <<43981, 61185>>

----------------------------------------------------------------------------
\* the twelve groups of a round in the order rows, columns, diagonals
RoundGroups ==
    <<<<0, 1, 2, 3>>, <<4, 5, 6, 7>>, <<8, 9, 10, 11>>, <<12, 13, 14, 15>>,
      <<0, 4, 8, 12>>, <<1, 5, 9, 13>>, <<2, 6, 10, 14>>, <<3, 7, 11, 15>>,
      <<0, 5, 10, 15>>, <<1, 6, 11, 12>>, <<2, 7, 8, 13>>, <<3, 4, 9, 14>>>>

\* the same with the diagonals mirrored
MirroredGroups ==
    [g \in 1..12 |->
        IF g <= 8 THEN RoundGroups[g]
        ELSE <<<<3, 6, 9, 12>>, <<2, 5, 8, 15>>, <<1, 4, 11, 14>>,
               <<0, 7, 10, 13>>>>[g - 8]]

\* mix applied to groups[lo], ..., groups[hi] in this order, each on the
\* words left by the one before it
RECURSIVE MixGroups(_, _, _, _)
MixGroups(s, groups, lo, hi) ==
    IF hi < lo THEN s
    ELSE IF hi = lo
    THEN _helix2_shuffle(s, groups[lo][1], groups[lo][2], groups[lo][3],
                         groups[lo][4])
    ELSE CHOOSE r \in {MixGroups(half, groups, (lo + hi) \div 2 + 1, hi) :
                           half \in {MixGroups(s, groups, lo,
                                               (lo + hi) \div 2)}} : TRUE

\* the block left by a copy of the per-block state, a round over
\* RoundGroups, the addition of the state, a round over the groups given
\* and the addition of the state
TwoRounds(state, groups) ==
    CHOOSE r \in {AddState(MixGroups(a, groups, 1, 12), state) :
                      a \in {AddState(MixGroups(state, RoundGroups, 1, 12),
                                      state)}} : TRUE

----------------------------------------------------------------------------
(* Reference arithmetic on 32-bit words written as four bytes, low-order    *)
(* byte first.                                                              *)

\* the four bytes of a word <<hi, lo>>
Bytes4(w) == <<w[2] % 256, w[2] \div 256, w[1] % 256, w[1] \div 256>>

\* bit i of n
BitOf(n, i) == (n \div (2 ^ i)) % 2

\* the byte whose bit i is set when exactly one of a, b has bit i set
ByteXor(a, b) ==
    ((BitOf(a, 0) + BitOf(b, 0)) % 2) + 2 * ((BitOf(a, 1) + BitOf(b, 1)) % 2)
    + 4 * ((BitOf(a, 2) + BitOf(b, 2)) % 2) + 8 * ((BitOf(a, 3) + BitOf(b, 3)) % 2)
    + 16 * ((BitOf(a, 4) + BitOf(b, 4)) % 2) + 32 * ((BitOf(a, 5) + BitOf(b, 5)) % 2)
    + 64 * ((BitOf(a, 6) + BitOf(b, 6)) % 2) + 128 * ((BitOf(a, 7) + BitOf(b, 7)) % 2)

\* x XOR y
WordXor(x, y) ==
    <<ByteXor(x[1], y[1]), ByteXor(x[2], y[2]), ByteXor(x[3], y[3]),
      ByteXor(x[4], y[4])>>

\* x + y modulo 2^32: byte-wise with carries, the carry out of the top byte
\* dropped
WordAdd(x, y) ==
    <<(x[1] + y[1]) % 256,
      (x[2] + y[2] + (x[1] + y[1]) \div 256) % 256,
      (x[3] + y[3] + (x[2] + y[2] + (x[1] + y[1]) \div 256) \div 256) % 256,
      (x[4] + y[4] + (x[3] + y[3] + (x[2] + y[2] + (x[1] + y[1]) \div 256)
                                        \div 256) \div 256) % 256>>

\* x rotated left by n bits, 0 < n < 32: bit i of x moves to bit
\* (i + n) mod 32
WordRotl(x, n) ==
    [j \in 1..4 |->
        ((x[(((j - 1 - (n \div 8)) + 4) % 4) + 1] * (2 ^ (n % 8))) % 256)
        + (x[(((j - 2 - (n \div 8)) + 8) % 4) + 1] \div (2 ^ (8 - (n % 8))))]

\* the eight steps of mix: the updated position, the update, the operands
\* (as positions 1..4 of the group (a, b, c, d)) and the rotation
MixSteps ==
    <<[tgt |-> 3, upd |-> "add", x |-> 1, op1 |-> "xor", y |-> 2, op2 |-> "add", z |-> 4, rot |-> 9],
      [tgt |-> 4, upd |-> "xor", x |-> 2, op1 |-> "add", y |-> 3, op2 |-> "xor", z |-> 1, rot |-> 13],
      [tgt |-> 1, upd |-> "add", x |-> 3, op1 |-> "xor", y |-> 4, op2 |-> "add", z |-> 2, rot |-> 18],
      [tgt |-> 2, upd |-> "xor", x |-> 4, op1 |-> "add", y |-> 1, op2 |-> "xor", z |-> 3, rot |-> 22],
      [tgt |-> 3, upd |-> "xor", x |-> 1, op1 |-> "add", y |-> 2, op2 |-> "none", z |-> 1, rot |-> 7],
      [tgt |-> 4, upd |-> "add", x |-> 2, op1 |-> "xor", y |-> 3, op2 |-> "none", z |-> 1, rot |-> 21],
      [tgt |-> 1, upd |-> "xor", x |-> 3, op1 |-> "add", y |-> 4, op2 |-> "none", z |-> 1, rot |-> 11],
      [tgt |-> 2, upd |-> "add", x |-> 4, op1 |-> "xor", y |-> 1, op2 |-> "none", z |-> 1, rot |-> 16]>>

\* x op y
WordOp(op, x, y) ==
    IF op = "add" THEN WordAdd(x, y)
    ELSE IF op = "xor" THEN WordXor(x, y)
    ELSE x

\* one step of mix on the words t, for the group g
MixStep(t, g, st) ==
    [t EXCEPT ![g[st.tgt]] =
        WordOp(st.upd, @,
               WordRotl(WordOp(st.op2, WordOp(st.op1, t[g[st.x]], t[g[st.y]]),
                               t[g[st.z]]),
                        st.rot))]

\* steps lo .. hi of mix in order, each on the words left by the one before
RECURSIVE MixFrom(_, _, _, _)
MixFrom(t, g, lo, hi) ==
    IF hi < lo THEN t
    ELSE IF hi = lo THEN MixStep(t, g, MixSteps[lo])
    ELSE CHOOSE r \in {MixFrom(half, g, (lo + hi) \div 2 + 1, hi) :
                           half \in {MixFrom(t, g, lo, (lo + hi) \div 2)}} : TRUE

(* C21: mix on positions (a, b, c, d) updates exactly those four words by   *)
(* the eight sequential in-place steps c += rotl((a^b)+d, 9);               *)
(* d ^= rotl((b+c)^a, 13); a += rotl((c^d)+b, 18); b ^= rotl((d+a)^c, 22);  *)
(* c ^= rotl(a+b, 7); d += rotl(b^c, 21); a ^= rotl(c+d, 11);               *)
(* b += rotl(d^a, 16), every addition modulo 2^32 and rotl a 32-bit left    *)
(* rotation; the other 12 words are unchanged.                              *)
C21_Mix ==
    \A k \in Held("mix") :
        \A t \in {MixFrom([i \in 0..15 |-> Bytes4(last[k].pre.keystream.stream[i])],
                          last[k].arg, 1, 8)} :
            \A i \in 0..15 :
                /\ ctx[k].keystream.stream[i] \in (0..65535) \X (0..65535)
                /\ Bytes4(ctx[k].keystream.stream[i]) = t[i]
                /\ i \notin {last[k].arg[j] : j \in 1..4} =>
                       ctx[k].keystream.stream[i] = last[k].pre.keystream.stream[i]

\* a diagonal of an array whose words have their top bits set has been
\* mixed after another group, and all four words of the group changed
C21_Witness ==
    \E k \in Held("mix") :
        /\ calls[k] = MaxMixes
        /\ last[k].arg = <<3, 4, 9, 14>>
        /\ \A j \in 1..4 :
               /\ last[k].pre.keystream.stream[last[k].arg[j]][1] >= 32768
               /\ ctx[k].keystream.stream[last[k].arg[j]] #
                      last[k].pre.keystream.stream[last[k].arg[j]]

----------------------------------------------------------------------------
\* the whole range of size bytes from offset start lies in block i
RangeInBlock(start, size, i) ==
    /\ Div64by64(start) = i
    /\ Mod64by64(start) + size <= HELIX2_KEYSTREAM_SIZE

(* C22: a helix2_byte call whose offset lies in the last-generated block,   *)
(* and a helix2_buffer call whose whole range lies in it, perform no block  *)
(* generation and leave every context field unchanged: the seed state, the  *)
(* cached block and both indices.                                           *)
C22_CacheHit ==
    /\ \A k \in Held("byte") :
           Div64by64(last[k].arg) = last[k].pre.keystream.last_block_index =>
               /\ ctx[k].gens = 0
               /\ SameContext(ctx[k], last[k].pre)
    /\ \A k \in Held("buffer") :
           RangeInBlock(last[k].arg, last[k].size,
                        last[k].pre.keystream.last_block_index) =>
               /\ ctx[k].gens = 0
               /\ SameContext(ctx[k], last[k].pre)

\* a range of at least two bytes has been transformed inside the cached
\* block, which is not block 0
C22_Witness ==
    \E k \in Held("buffer") :
        /\ last[k].size >= 2
        /\ last[k].pre.keystream.last_block_index # Zero64
        /\ RangeInBlock(last[k].arg, last[k].size,
                        last[k].pre.keystream.last_block_index)
        /\ last[k].buf_out # last[k].buf_in

----------------------------------------------------------------------------
\* the byte a call for offset with input byte returns from the keystream
\* block of index i of the shared context
ByteFromBlock(offset, byte, i) ==
    Xor8(byte, BlockByte(KeystreamBlock(ctx[1].key, ctx[1].nonce, i),
                         Mod64by64(offset)))

\* the threads whose helix2_byte call has returned
Returned == {t \in Ctxs : last[t].op = "done"}

(* C23: two helix2_byte calls on one context for offsets in different       *)
(* blocks, interleaved between statements with no lock, can leave a call    *)
(* with its input XORed with a keystream byte of the other call's block or  *)
(* of a partially generated block (C23_Witness); a call returns another     *)
(* byte than that of its own block only when the two calls overlapped in    *)
(* time, so mutual exclusion is what the caller has to add.                 *)
C23_WrongOnlyWhenInterleaved ==
    \A t \in Returned :
        last[t].byte_out # ByteFromBlock(last[t].arg, last[t].byte_in,
                                         Div64by64(last[t].arg))
            => last[t].overlapped

\* a call has returned its input XORed with the byte of the other call's
\* block, which is not the byte of its own block
C23_Witness ==
    \E t \in Returned :
        \E u \in Ctxs \ {t} :
            /\ Div64by64(last[u].arg) # Div64by64(last[t].arg)
            /\ last[t].byte_out = ByteFromBlock(last[t].arg, last[t].byte_in,
                                                Div64by64(last[u].arg))
            /\ last[t].byte_out # ByteFromBlock(last[t].arg, last[t].byte_in,
                                                Div64by64(last[t].arg))

\* a call has returned its input XORed with a byte of a block that is
\* neither call's: the other call's generation was under way
C23_PartialBlock ==
    \E t \in Returned :
        \A u \in Ctxs :
            last[t].byte_out # ByteFromBlock(last[t].arg, last[t].byte_in,
                                             Div64by64(last[u].arg))

----------------------------------------------------------------------------
(* C24: helix2_buffer returns for every length n >= 0, start offset and     *)
(* context state after exactly n XOR steps, having written buffer[i]        *)
(* exactly once for each i in 0..n-1, in this order, and no other buffer    *)
(* position; every call ends with a result, whatever the context held.      *)
C24_ExactlyNSteps ==
    \A k \in Held("buffer") :
        /\ Len(last[k].trace) = last[k].size
        /\ \A j \in 1..last[k].size : last[k].trace[j].pos = j - 1
        /\ DOMAIN last[k].buf_out = DOMAIN last[k].buf_in
        /\ \A i \in DOMAIN last[k].buf_in :
               /\ last[k].buf_out[i] \in 0..255
               /\ i >= last[k].size => last[k].buf_out[i] = last[k].buf_in[i]

\* the longest range has been transformed, over two block boundaries, and
\* every byte of it changed while the byte beyond it did not
C24_Witness ==
    \E k \in Held("buffer") :
        /\ last[k].size = MaxLen
        /\ ctx[k].gens >= 2
        /\ \A i \in 0..(MaxLen - 1) : last[k].buf_out[i] # last[k].buf_in[i]
        /\ last[k].buf_out[MaxLen] = last[k].buf_in[MaxLen]

----------------------------------------------------------------------------
(* C25: after helix2_initialize_context and after every completed           *)
(* helix2_byte, helix2_buffer, helix2_buffer_set_next_block and             *)
(* helix2_buffer_next_block call, current_block_index = last_block_index.   *)
C25_IndicesAgree ==
    \A k \in Ctxs :
        live[k] =>
            ctx[k].keystream.current_block_index = ctx[k].keystream.last_block_index

\* a constructed context has served a call that moved it to another block
\* than block 0
C25_Witness ==
    \E k \in Ctxs :
        /\ live[k]
        /\ last[k].op \in {"byte", "buffer", "set_block", "next_block"}
        /\ ctx[k].keystream.last_block_index # Zero64
        /\ ctx[k].keystream.last_block_index # last[k].pre.keystream.last_block_index

----------------------------------------------------------------------------
\* byte i of a range from offset start lies at or beyond offset 2^64
BeyondLastOffset(start, i) == PastEnd(start, i + 1)

(* C26: in helix2_buffer, byte i of the range uses keystream block          *)
(* start_offset div 64 + (start_offset mod 64 + i) div 64; for the bytes of *)
(* a range that runs past offset 2^64 - 1 this is block 2^58, 2^58 + 1,     *)
(* ..., an index that no helix2_byte offset selects, and not the block of   *)
(* offset (start_offset + i) mod 2^64, as it is for every other byte.       *)
C26_RangeBlockIndex ==
    \A k \in Held("buffer") :
        \A j \in DOMAIN last[k].trace :
            /\ last[k].trace[j].blk =
                   BlockOfRangeByte(last[k].arg, last[k].trace[j].pos)
            /\ IF BeyondLastOffset(last[k].arg, last[k].trace[j].pos)
               THEN /\ last[k].trace[j].blk[1] >= 1024
                    /\ \A o \in ByteOffsets : Div64by64(o)[1] < 1024
                    /\ last[k].trace[j].blk #
                           Div64by64(Add64(last[k].arg, last[k].trace[j].pos))
               ELSE last[k].trace[j].blk =
                        Div64by64(Add64(last[k].arg, last[k].trace[j].pos))

\* the second byte of a range that starts at offset 2^64 - 1 has been XORed
\* with block 2^58, while offset (2^64 - 1) + 1 mod 2^64 lies in block 0
C26_Witness ==
    \E k \in Held("buffer") :
        /\ last[k].arg = Max64
        /\ last[k].size = 2
        /\ last[k].trace[2].blk = U64(1024, 0, 0, 0)
        /\ Div64by64(Add64(last[k].arg, 1)) = Zero64
        /\ ctx[k].keystream.last_block_index = U64(1024, 0, 0, 0)

----------------------------------------------------------------------------
\* nonce bytes 0..3 XOR the high 32 bits of the block index the context
\* holds, as four bytes, low-order byte first
NonceXorHigh(c) ==
    WordXor(<<c.nonce[0], c.nonce[1], c.nonce[2], c.nonce[3]>>,
            Bytes4(High32(c.keystream.last_block_index)))

\* the two contexts agree in key, in nonce bytes 4..19, in the low 32 bits
\* of their block indices and in nonce bytes 0..3 XOR the high 32 bits
SameBlockInput ==
    /\ ctx[1].key = ctx[2].key
    /\ \A i \in 4..19 : ctx[1].nonce[i] = ctx[2].nonce[i]
    /\ Low32(ctx[1].keystream.last_block_index)
           = Low32(ctx[2].keystream.last_block_index)
    /\ NonceXorHigh(ctx[1]) = NonceXorHigh(ctx[2])

(* C27: the keystream block depends on nonce bytes 0..3 and on the high 32  *)
(* bits of the block index only through their XOR: for the same key and     *)
(* nonce bytes 4..19, two (nonce, block index) pairs with equal low 32      *)
(* index bits and equal nonce-word XOR high-32-bits yield the same 64-byte  *)
(* block.                                                                   *)
C27_XorOnly ==
    (live[1] /\ live[2] /\ SameBlockInput)
        => ctx[1].keystream.stream = ctx[2].keystream.stream

\* an all-zero nonce at block 2^32 and a nonce starting 01 00 00 00 at
\* block 0 hold the same block
C27_Witness ==
    /\ ctx[1].nonce = ZeroNonce
    /\ ctx[1].keystream.last_block_index = U64(0, 1, 0, 0)
    /\ ctx[2].nonce = OneNonce
    /\ ctx[2].keystream.last_block_index = Zero64
    /\ last[1].op = "set_block"
    /\ SameBlockInput
    /\ ctx[1].keystream.stream = ctx[2].keystream.stream

----------------------------------------------------------------------------
\* the call just served found a constructed context
Moved(k) ==
    live[k] /\ last[k].op \in {"byte", "buffer", "set_block", "next_block"}

\* state words 10 and 11 of a context
CounterWords(c) == <<c.keystream.state[10], c.keystream.state[11]>>

(* C28: for a fixed key and nonce the map from block index to (state word   *)
(* 10, state word 11) is injective: when a call leaves a context at a block *)
(* index other than the one it found, the two words it leaves differ from   *)
(* the two it found.                                                        *)
C28_Injective ==
    \A k \in Ctxs :
        (Moved(k) /\ ctx[k].keystream.last_block_index
                         # last[k].pre.keystream.last_block_index)
            => CounterWords(ctx[k]) # CounterWords(last[k].pre)

\* a context moved from block 0 to block 2^32: word 10 is 0 for both, word
\* 11 tells them apart
C28_Witness ==
    /\ Moved(1)
    /\ last[1].pre.keystream.last_block_index = Zero64
    /\ ctx[1].keystream.last_block_index = U64(0, 1, 0, 0)
    /\ ctx[1].keystream.state[10] = last[1].pre.keystream.state[10]
    /\ ctx[1].keystream.state[11] # last[1].pre.keystream.state[11]

----------------------------------------------------------------------------
\* the helix2_buffer calls of size 0 whose result the caller holds
HeldEmpty == {k \in Held("buffer") : last[k].size = 0}

(* C29: helix2_buffer with size 0 leaves the caller's buffer untouched and  *)
(* reads no keystream byte, but still seeks: afterwards last_block_index =  *)
(* current_block_index = start_offset div 64 and the cached block is that   *)
(* block's keystream, generated once if the context held another block and  *)
(* not at all if it held this one.                                          *)
C29_EmptyRangeSeeks ==
    \A k \in HeldEmpty :
        /\ last[k].buf_out = last[k].buf_in
        /\ last[k].trace = <<>>
        /\ ReadyAt(ctx[k], Div64by64(last[k].arg))
        /\ ctx[k].gens = IF last[k].pre.keystream.last_block_index
                               = Div64by64(last[k].arg)
                         THEN 0 ELSE 1

\* a size-0 call at offset 30 on a context that held another block
C29_Witness ==
    /\ 1 \in HeldEmpty
    /\ last[1].pre.keystream.last_block_index # Zero64
    /\ Div64by64(last[1].arg) = Zero64
    /\ ctx[1].keystream.last_block_index = Zero64
    /\ ctx[1].keystream.stream # last[1].pre.keystream.stream
    /\ ctx[1].gens = 1
    /\ last[1].buf_out = InputBuffer

----------------------------------------------------------------------------
\* the indices of the bytes of a cached block
BlockIndices == 0..(HELIX2_KEYSTREAM_SIZE - 1)

\* block_offset after the XOR step that read index idx
OffsetAfter(idx) == idx + 1

(* C30: every index helix2_byte and helix2_buffer use to read the cached    *)
(* block is in 0..63: helix2_byte reads at offset mod 64; helix2_buffer     *)
(* starts at start_offset mod 64, its block_offset never exceeds 64 after a *)
(* step, and a block_offset of 64 is reset to 0 before the next read.       *)
C30_IndexInBlock ==
    /\ \A k \in Held("byte") : last[k].idx \in BlockIndices
    /\ \A k \in Held("buffer") :
           \A j \in DOMAIN last[k].trace :
               /\ last[k].trace[j].idx \in BlockIndices
               /\ OffsetAfter(last[k].trace[j].idx) <= HELIX2_KEYSTREAM_SIZE
               /\ j = 1 => last[k].trace[j].idx = Mod64by64(last[k].arg)
               /\ j > 1 => last[k].trace[j].idx =
                               IF OffsetAfter(last[k].trace[j - 1].idx)
                                      = HELIX2_KEYSTREAM_SIZE
                               THEN 0
                               ELSE OffsetAfter(last[k].trace[j - 1].idx)

\* a range whose block_offset reached 64 and was reset: index 63 was read,
\* then index 0
C30_Witness ==
    /\ last[1].op = "buffer"
    /\ \E j \in DOMAIN last[1].trace :
           /\ j > 1
           /\ last[1].trace[j - 1].idx = HELIX2_KEYSTREAM_SIZE - 1
           /\ last[1].trace[j].idx = 0
           /\ last[1].trace[j].blk = Inc64(last[1].trace[j - 1].blk)

====
